---------------------------- MODULE Spec2Model ----------------------------
(***************************************************************************)
(* Sentinel Inspector: the ingestion pipeline of DbLoggingService.handle   *)
(* (services/db_logging.py) with the helpers it calls, the legacy /logs    *)
(* router, and the session-per-request commit of the routers.              *)
(*                                                                         *)
(* Text is a sequence of one-character strings; offsets are 0-based and    *)
(* half-open as in the Python source.                                      *)
(***************************************************************************)
EXTENDS Integers, Sequences, FiniteSets, TLC

VARIABLES pc, route, item, env, loc, out, status, calls,
          session, db, sent, fs, uploads, nextId, server, thr

vars == <<pc, route, item, env, loc, out, status, calls,
          session, db, sent, fs, uploads, nextId, server, thr>>

(***************************************************************************)
(* Python string primitives                                                *)
(***************************************************************************)
UpperChars == <<"A","B","C","D","E","F","G","H","I","J","K","L","M",
                "N","O","P","Q","R","S","T","U","V","W","X","Y","Z">>

LowerChars == <<"a","b","c","d","e","f","g","h","i","j","k","l","m",
                "n","o","p","q","r","s","t","u","v","w","x","y","z">>

LowerChar(c) ==
    IF \E i \in 1..26 : UpperChars[i] = c
    THEN LowerChars[CHOOSE i \in 1..26 : UpperChars[i] = c]
    ELSE c

UpperChar(c) ==
    IF \E i \in 1..26 : LowerChars[i] = c
    THEN UpperChars[CHOOSE i \in 1..26 : LowerChars[i] = c]
    ELSE c

Lower(s) == [i \in 1..Len(s) |-> LowerChar(s[i])]

Upper(s) == [i \in 1..Len(s) |-> UpperChar(s[i])]

IsSpace(c) == c = " "

RECURSIVE LStrip(_)
LStrip(s) ==
    IF s # <<>> /\ IsSpace(Head(s)) THEN LStrip(Tail(s)) ELSE s

RECURSIVE RStrip(_)
RStrip(s) ==
    IF s # <<>> /\ IsSpace(s[Len(s)]) THEN RStrip(SubSeq(s, 1, Len(s) - 1)) ELSE s

Strip(s) == RStrip(LStrip(s))

\* s[b:e] for 0 <= b <= e <= len(s)
Slice(s, b, e) == SubSeq(s, b + 1, e)

\* sub in s
Contains(sub, s) ==
    \E i \in 0..(Len(s) - Len(sub)) : Slice(s, i, i + Len(sub)) = sub

\* s.find(v, start): the lowest index >= start at which v occurs, else -1
Find(s, v, start) ==
    LET hits == {i \in start..(Len(s) - Len(v)) : Slice(s, i, i + Len(v)) = v}
    IN  IF hits = {} THEN -1 ELSE CHOOSE i \in hits : \A j \in hits : i <= j

(***************************************************************************)
(* Python values that may or may not be a dict                             *)
(***************************************************************************)
NotADict == [t |-> "other"]

Dict(f) == [t |-> "dict", d |-> f]

IsDict(v) == v.t = "dict"

EmptyDict == <<>>

HasKey(f, k) == k \in DOMAIN f

(***************************************************************************)
(* Settings based service filter                                           *)
(***************************************************************************)
S_llm == <<"l","l","m">>

S_mcp == <<"m","c","p">>

LLM_HOST_MAP ==
    << [key |-> "gpt",         substr |-> <<"c","h","a","t","g","p","t">>],
       [key |-> "gemini",      substr |-> <<"g","e","m","i","n","i">>],
       [key |-> "claude",      substr |-> <<"c","l","a","u","d","e">>],
       [key |-> "deepseek",    substr |-> <<"d","e","e","p","s","e","e","k">>],
       [key |-> "groq",        substr |-> <<"g","r","o","q">>],
       [key |-> "grok",        substr |-> <<"g","r","o","k",".","c","o","m">>],
       [key |-> "perplexity",  substr |-> <<"p","e","r","p","l","e","x","i","t","y",".","a","i">>],
       [key |-> "poe",         substr |-> <<"p","o","e",".","c","o","m">>],
       [key |-> "mistral",     substr |-> <<"m","i","s","t","r","a","l",".","a","i">>],
       [key |-> "cohere",      substr |-> <<"c","o","h","e","r","e",".","c","o","m">>],
       [key |-> "huggingface", substr |-> <<"h","u","g","g","i","n","g","f","a","c","e",".","c","o">>],
       [key |-> "you",         substr |-> <<"y","o","u",".","c","o","m">>],
       [key |-> "openrouter",  substr |-> <<"o","p","e","n","r","o","u","t","e","r",".","a","i">>] >>

MCP_HOST_MAP ==
    << [key |-> "gpt_desktop",    substr |-> <<"c","h","a","t","g","p","t">>],
       [key |-> "claude_desktop", substr |-> <<"c","l","a","u","d","e">>],
       [key |-> "vscode_copilot", substr |-> <<"c","o","p","i","l","o","t">>] >>

\* settings(id=1).config_json as a dict; {} when the read raises, there is no
\* row, or the column holds no dict
load_settings_config(settings) ==
    IF settings.kind = "raise" THEN EmptyDict
    ELSE IF settings.kind = "norow" THEN EmptyDict
    ELSE IF IsDict(settings.cfg) THEN settings.cfg.d
    ELSE EmptyDict

\* the variant that lets the last matching table entry win
LastHostMatch(mapping, h) ==
    LET hits == {i \in 1..Len(mapping) : Contains(mapping[i].substr, h)}
    IN  IF hits = {} THEN 0 ELSE CHOOSE i \in hits : \A j \in hits : j <= i

\* index of the first table entry whose substring occurs in h, 0 when none
FirstHostMatch(mapping, h) ==
    LET hits == {i \in 1..Len(mapping) : Contains(mapping[i].substr, h)}
    IN  IF hits = {} THEN 0 ELSE CHOOSE i \in hits : \A j \in hits : i <= j

\* the all-unchecked test of line 100: not any(bool(v) for v in enabled.values())
AllUnchecked(enabled) == ~ \E k \in DOMAIN enabled : enabled[k]

is_monitored_by_settings(cfg, interface, host) ==
    LET itf == Lower(Strip(IF interface = <<>> THEN S_llm ELSE interface))
        h   == Lower(Strip(host))
        sf  == IF HasKey(cfg, "service_filters") THEN cfg["service_filters"] ELSE NotADict
    IN  IF ~IsDict(sf) THEN TRUE
        ELSE LET enabled == IF HasKey(sf.d, itf) THEN sf.d[itf] ELSE NotADict
             IN  IF ~IsDict(enabled) THEN TRUE
                 ELSE IF AllUnchecked(enabled.d) THEN FALSE
                 ELSE IF itf # S_llm /\ itf # S_mcp THEN TRUE
                 ELSE LET mapping == IF itf = S_llm THEN LLM_HOST_MAP ELSE MCP_HOST_MAP
                          i == FirstHostMatch(mapping, h)
                      IN  IF i = 0 THEN TRUE
                          ELSE IF HasKey(enabled.d, mapping[i].key)
                               THEN enabled.d[mapping[i].key]
                               ELSE TRUE

(***************************************************************************)
(* Labels and label tokens (services/masking.py)                           *)
(***************************************************************************)
L_NAME == <<"N","A","M","E">>

L_PHONE == <<"P","H","O","N","E">>

L_IPV4 == <<"I","P","V","4">>

L_JWT == <<"J","W","T">>

L_CARD_NO == <<"C","A","R","D","_","N","O">>

L_CARD_NUMBER == <<"C","A","R","D","_","N","U","M","B","E","R">>

L_SENSITIVE == <<"S","E","N","S","I","T","I","V","E">>

L_BOGUS == <<"B","O","G","U","S">>

\* the labels of _ALLOWED (services/ai_detector.py) that occur here
ALLOWED == {L_NAME, L_PHONE, L_IPV4, L_JWT, L_CARD_NUMBER}

\* TOKEN.get(lab, lab or "SENSITIVE"): every label is its own token except the
\* legacy alias CARD_NO
token_for(label) ==
    LET lab == Upper(label)
    IN  IF lab = L_CARD_NO THEN L_CARD_NUMBER
        ELSE IF lab = <<>> THEN L_SENSITIVE
        ELSE lab

norm_label(e) == Upper(Strip(e.label))

(***************************************************************************)
(* Generic list helpers                                                    *)
(***************************************************************************)
\* a[b, e) and x[b, e) share a position
Overlap(ab, ae, xb, xe) == ~(ae <= xb \/ xe <= ab)

\* stable insertion of r into a list sorted by (begin asc, length desc)
RECURSIVE InsertByBeginLen(_, _)
InsertByBeginLen(sorted, r) ==
    IF sorted = <<>> THEN <<r>>
    ELSE LET h == Head(sorted)
             before == \/ h.begin < r.begin
                       \/ /\ h.begin = r.begin
                          /\ (h.end - h.begin) >= (r.end - r.begin)
         IN  IF before THEN <<h>> \o InsertByBeginLen(Tail(sorted), r)
             ELSE <<r>> \o sorted

RECURSIVE SortByBeginLen(_)
SortByBeginLen(s) ==
    IF s = <<>> THEN <<>>
    ELSE InsertByBeginLen(SortByBeginLen(SubSeq(s, 1, Len(s) - 1)), s[Len(s)])

\* greedy selection of the sorted candidates, dropping whatever overlaps a
\* candidate already taken
RECURSIVE SelectNonOverlap(_, _)
SelectNonOverlap(cands, taken) ==
    IF cands = <<>> THEN <<>>
    ELSE LET c == Head(cands)
         IN  IF \E i \in 1..Len(taken) : Overlap(c.begin, c.end, taken[i].begin, taken[i].end)
             THEN SelectNonOverlap(Tail(cands), taken)
             ELSE <<c>> \o SelectNonOverlap(Tail(cands), Append(taken, c))

(***************************************************************************)
(* Regex detector (services/regex_detector.py)                             *)
(***************************************************************************)
\* The pattern table: each label matches one literal word of the alphabet.
PATTERNS ==
    << [label |-> L_PHONE, word |-> <<"0","1">>],
       [label |-> L_IPV4,  word |-> <<"1","1">>],
       [label |-> L_JWT,   word |-> <<"0","1","1">>] >>

\* rx.finditer(text): the leftmost non-overlapping matches from pos on
RECURSIVE FindIter(_, _, _)
FindIter(text, word, pos) ==
    LET idx == Find(text, word, pos)
    IN  IF idx < 0 THEN <<>>
        ELSE <<[begin |-> idx, end |-> idx + Len(word)]>>
             \o FindIter(text, word, idx + Len(word))

RECURSIVE FoundFrom(_, _)
FoundFrom(text, k) ==
    IF k > Len(PATTERNS) THEN <<>>
    ELSE LET ms == FindIter(text, PATTERNS[k].word, 0)
         IN  [i \in 1..Len(ms) |->
                 [label |-> PATTERNS[k].label,
                  value |-> Slice(text, ms[i].begin, ms[i].end),
                  begin |-> ms[i].begin,
                  end   |-> ms[i].end]]
             \o FoundFrom(text, k + 1)

detect_entities(text) ==
    IF text = <<>> THEN <<>>
    ELSE SelectNonOverlap(SortByBeginLen(FoundFrom(text, 1)), <<>>)

(***************************************************************************)
(* Number normalizer (services/normalize_numbers.py)                       *)
(***************************************************************************)
\* "o" stands for an obfuscated zero (unified to "0" in place), "z" for a
\* zero-width character (removed).
RECURSIVE normalize_obfuscated_numbers(_)
normalize_obfuscated_numbers(text) ==
    IF text = <<>> THEN <<>>
    ELSE LET c == Head(text)
             rest == normalize_obfuscated_numbers(Tail(text))
         IN  IF c = "z" THEN rest
             ELSE IF c = "o" THEN <<"0">> \o rest
             ELSE <<c>> \o rest

(***************************************************************************)
(* Prompt masker (services/masking.py)                                     *)
(***************************************************************************)
RECURSIVE collect_ranges_by_offset(_, _)
collect_ranges_by_offset(original, entities) ==
    IF entities = <<>> THEN <<>>
    ELSE LET e == Head(entities)
             rest == collect_ranges_by_offset(original, Tail(entities))
         IN  IF 0 <= e.begin /\ e.begin < e.end /\ e.end <= Len(original)
             THEN <<[begin |-> e.begin, end |-> e.end, tok |-> token_for(norm_label(e))]>> \o rest
             ELSE rest

\* the matches of one value that do not touch a position already taken
RECURSIVE ValueMatches(_, _, _, _)
ValueMatches(ms, tok, taken, acc) ==
    IF ms = <<>> THEN [ranges |-> acc, taken |-> taken]
    ELSE LET m == Head(ms)
             span == m.begin..(m.end - 1)
         IN  IF span \cap taken # {}
             THEN ValueMatches(Tail(ms), tok, taken, acc)
             ELSE ValueMatches(Tail(ms), tok, taken \cup span,
                               Append(acc, [begin |-> m.begin, end |-> m.end, tok |-> tok]))

RECURSIVE CollectByValueFrom(_, _, _)
CollectByValueFrom(original, entities, taken) ==
    IF entities = <<>> THEN <<>>
    ELSE LET e == Head(entities)
         IN  IF e.value = <<>>
             THEN CollectByValueFrom(original, Tail(entities), taken)
             ELSE LET r == ValueMatches(FindIter(original, e.value, 0),
                                        token_for(norm_label(e)), taken, <<>>)
                  IN  r.ranges \o CollectByValueFrom(original, Tail(entities), r.taken)

collect_ranges_by_value(original, entities) ==
    CollectByValueFrom(original, entities, {})

RECURSIVE SortByBeginDesc(_)
SortByBeginDesc(s) ==
    IF s = <<>> THEN <<>>
    ELSE LET m == CHOOSE i \in 1..Len(s) :
                      /\ \A j \in 1..Len(s) : s[j].begin <= s[i].begin
                      /\ \A j \in 1..(i - 1) : s[j].begin < s[i].begin
         IN  <<s[m]>> \o SortByBeginDesc(SubSeq(s, 1, m - 1) \o SubSeq(s, m + 1, Len(s)))

merge_and_sort(ranges) ==
    IF ranges = <<>> THEN <<>>
    ELSE SortByBeginDesc(SelectNonOverlap(SortByBeginLen(ranges), <<>>))

RECURSIVE apply_ranges(_, _, _)
apply_ranges(original, ranges, parens) ==
    IF ranges = <<>> THEN original
    ELSE LET r == Head(ranges)
             rep == IF parens THEN <<"(">> \o r.tok \o <<")">> ELSE r.tok
         IN  apply_ranges(Slice(original, 0, r.begin) \o rep
                            \o Slice(original, r.end, Len(original)),
                          Tail(ranges), parens)

prepare_ranges(original, entities) ==
    IF original = <<>> \/ entities = <<>> THEN <<>>
    ELSE merge_and_sort(collect_ranges_by_offset(original, entities)
                        \o collect_ranges_by_value(original, entities))

mask_by_entities(original, entities) ==
    LET ranges == prepare_ranges(original, entities)
    IN  IF ranges = <<>> THEN original ELSE apply_ranges(original, ranges, FALSE)

mask_with_parens_by_entities(original, entities) ==
    LET ranges == prepare_ranges(original, entities)
    IN  IF ranges = <<>> THEN original ELSE apply_ranges(original, ranges, TRUE)


(***************************************************************************)
(* LLM detector runner (services/ai_external.py)                           *)
(***************************************************************************)
RECURSIVE CleanAiEntities(_)
CleanAiEntities(ents) ==
    IF ents = <<>> THEN <<>>
    ELSE LET t == Upper(Strip(Head(ents).type))
             v == Strip(Head(ents).value)
         IN  IF t # <<>> /\ v # <<>>
             THEN <<[type |-> t, value |-> v]>> \o CleanAiEntities(Tail(ents))
             ELSE CleanAiEntities(Tail(ents))

\* ai is what loading the model and run_infer produce for this request
analyze_text(ai) ==
    IF ai.kind = "load_fail" \/ ai.kind = "infer_fail"
    THEN [has_sensitive |-> FALSE, entities |-> <<>>]
    ELSE LET clean == CleanAiEntities(ai.entities)
         IN  [has_sensitive |-> IF ai.has \/ clean # <<>> THEN clean # <<>> ELSE FALSE,
              entities |-> clean]

(***************************************************************************)
(* Span helpers of services/db_logging.py                                  *)
(***************************************************************************)
RECURSIVE RebaseFrom(_, _, _)
RebaseFrom(original, ai_ents, cursor) ==
    IF ai_ents = <<>> THEN <<>>
    ELSE LET e == Head(ai_ents)
             label == Upper(Strip(e.type))
             value == Strip(e.value)
         IN  IF label = <<>> \/ value = <<>>
             THEN RebaseFrom(original, Tail(ai_ents), cursor)
             ELSE LET i1 == Find(original, value, cursor)
                      idx == IF i1 < 0 THEN Find(original, value, 0) ELSE i1
                  IN  IF idx < 0
                      THEN RebaseFrom(original, Tail(ai_ents), cursor)
                      ELSE <<[label |-> label, value |-> value,
                              begin |-> idx, end |-> idx + Len(value)]>>
                           \o RebaseFrom(original, Tail(ai_ents), idx + Len(value))

\* the variant that counts positions from one
rebase_from_one(original, ai_ents) ==
    LET r == RebaseFrom(original, ai_ents, 0)
    IN  [i \in 1..Len(r) |-> [r[i] EXCEPT !.begin = @ + 1, !.end = @ + 1]]

\* the variant that searches the whole prompt for every entity
rebase_without_cursor(original, ai_ents) ==
    IF ai_ents = <<>> THEN <<>>
    ELSE RebaseFrom(original, <<Head(ai_ents)>>, 0)
           \o RebaseFrom(original, Tail(ai_ents), 0)

rebase_ai_entities_on_original(original, ai_ents) == RebaseFrom(original, ai_ents, 0)

ValidSpan(e) == e.begin >= 0 /\ e.end >= 0 /\ e.end > e.begin

RECURSIVE NormNotOverlapping(_, _)
NormNotOverlapping(raw, norm) ==
    IF norm = <<>> THEN <<>>
    ELSE LET e == Head(norm)
             overlapped == \E i \in 1..Len(raw) :
                               /\ ValidSpan(raw[i])
                               /\ Overlap(e.begin, e.end, raw[i].begin, raw[i].end)
         IN  IF ~ValidSpan(e) \/ overlapped
             THEN NormNotOverlapping(raw, Tail(norm))
             ELSE <<e>> \o NormNotOverlapping(raw, Tail(norm))

merge_raw_and_norm_drop_overlap(raw, norm) == raw \o NormNotOverlapping(raw, norm)

\* the conflict test of _dedup_spans, line 186
SpanConflict(e, x) ==
    \/ (e.begin = x.begin /\ e.end = x.end)
    \/ (e.label = x.label /\ Overlap(e.begin, e.end, x.begin, x.end))

RECURSIVE DedupInto(_, _)
DedupInto(acc, extra) ==
    IF extra = <<>> THEN acc
    ELSE LET e == Head(extra)
         IN  IF \E i \in 1..Len(acc) : SpanConflict(e, acc[i])
             THEN DedupInto(acc, Tail(extra))
             ELSE DedupInto(Append(acc, e), Tail(extra))

dedup_spans(base, extra) == DedupInto(base, extra)

\* the variant that leaves the normalized value in place
KeepNormValue(e, text) == e

\* lines 447-450: a span found on the normalized text gets the original slice
RestoreValue(e, text) ==
    IF 0 <= e.begin /\ e.begin < e.end /\ e.end <= Len(text)
    THEN [e EXCEPT !.value = Slice(text, e.begin, e.end)]
    ELSE e

RestoreValues(ents, text) == [i \in 1..Len(ents) |-> RestoreValue(ents[i], text)]

\* regex pass on the text and on its normalized form, merged (lines 433-456)
\* fault "regex": regex_detect raises, which both try blocks turn into []
regex_pass(text, fault) ==
    LET raw  == IF fault = "regex" THEN <<>> ELSE detect_entities(text)
        norm == IF fault = "regex" THEN <<>>
                ELSE RestoreValues(detect_entities(normalize_obfuscated_numbers(text)), text)
    IN  merge_raw_and_norm_drop_overlap(raw, norm)

ent_key(e) == <<Upper(e.label), e.begin, e.end>>

KeysOf(ents) == {ent_key(ents[i]) : i \in 1..Len(ents)}

\* the alert as its clauses: the labels identified by regex, then those by AI
build_alert_from_merged(merged_ents, regex_src, ai_src) ==
    LET regex_keys == KeysOf(regex_src)
        ai_keys    == KeysOf(ai_src)
        only_regex == {Upper(merged_ents[i].label) : i \in
                         {j \in 1..Len(merged_ents) : ent_key(merged_ents[j]) \in regex_keys}}
        only_ai    == {Upper(merged_ents[i].label) : i \in
                         {j \in 1..Len(merged_ents) :
                             /\ ent_key(merged_ents[j]) \notin regex_keys
                             /\ ent_key(merged_ents[j]) \in ai_keys}}
    IN  (IF only_regex # {} THEN <<[src |-> "regex", labels |-> only_regex]>> ELSE <<>>)
        \o (IF only_ai # {} THEN <<[src |-> "ai", labels |-> only_ai]>> ELSE <<>>)


(***************************************************************************)
(* Attachment store (services/attachment.py)                               *)
(***************************************************************************)
F_png == <<"p","n","g">>

F_jpg == <<"j","p","g">>

F_jpeg == <<"j","p","e","g">>

F_webp == <<"w","e","b","p">>

F_pdf == <<"p","d","f">>

F_docx == <<"d","o","c","x">>

F_pptx == <<"p","p","t","x">>

F_csv == <<"c","s","v">>

F_txt == <<"t","x","t">>

F_xlsx == <<"x","l","s","x">>

F_bin == <<"b","i","n">>

M_image == <<"i","m","a","g","e","/">>

M_image_png == M_image \o F_png

M_image_jpeg == M_image \o F_jpeg

M_image_jpg == M_image \o F_jpg

M_image_webp == M_image \o F_webp

M_image_bmp == M_image \o <<"b","m","p">>

M_image_tiff == M_image \o <<"t","i","f","f">>

M_application_pdf == <<"a","p","p","l","i","c","a","t","i","o","n","/","p","d","f">>

M_docx ==
    <<"a","p","p","l","i","c","a","t","i","o","n","/","v","n","d",".","o","p","e","n","x","m","l","f","o","r","m","a","t","s","-","o","f","f","i","c","e","d","o","c","u","m","e","n","t",".","w","o","r","d","p","r","o","c","e","s","s","i","n","g","m","l",".","d","o","c","u","m","e","n","t">>

M_pptx ==
    <<"a","p","p","l","i","c","a","t","i","o","n","/","v","n","d",".","o","p","e","n","x","m","l","f","o","r","m","a","t","s","-","o","f","f","i","c","e","d","o","c","u","m","e","n","t",".","p","r","e","s","e","n","t","a","t","i","o","n","m","l",".","p","r","e","s","e","n","t","a","t","i","o","n">>

M_xlsx ==
    <<"a","p","p","l","i","c","a","t","i","o","n","/","v","n","d",".","o","p","e","n","x","m","l","f","o","r","m","a","t","s","-","o","f","f","i","c","e","d","o","c","u","m","e","n","t",".","s","p","r","e","a","d","s","h","e","e","t","m","l",".","s","h","e","e","t">>

M_text_csv == <<"t","e","x","t","/","c","s","v">>

M_text_plain == <<"t","e","x","t","/","p","l","a","i","n">>

EXT_TO_MIME ==
    << [ext |-> F_png,  mime |-> M_image_png],
       [ext |-> F_jpg,  mime |-> M_image_jpeg],
       [ext |-> F_jpeg, mime |-> M_image_jpeg],
       [ext |-> F_webp, mime |-> M_image_webp],
       [ext |-> F_pdf,  mime |-> M_application_pdf],
       [ext |-> F_docx, mime |-> M_docx],
       [ext |-> F_pptx, mime |-> M_pptx],
       [ext |-> F_csv,  mime |-> M_text_csv],
       [ext |-> F_txt,  mime |-> M_text_plain],
       [ext |-> F_xlsx, mime |-> M_xlsx] >>

\* _EXT_TO_MIME.get(ext, "")
MimeOfExt(ext) ==
    IF \E i \in 1..Len(EXT_TO_MIME) : EXT_TO_MIME[i].ext = ext
    THEN EXT_TO_MIME[CHOOSE i \in 1..Len(EXT_TO_MIME) : EXT_TO_MIME[i].ext = ext].mime
    ELSE <<>>

IMAGE_EXTS == {F_png, F_jpg, F_jpeg, F_webp}

DOC_EXTS == {F_pdf, F_docx, F_pptx, F_csv, F_txt, F_xlsx}

Digits == {"0","1","2","3","4","5","6","7","8","9"}

SafeChars ==
    {UpperChars[i] : i \in 1..26} \cup {LowerChars[i] : i \in 1..26}
        \cup Digits \cup {"_", ".", "-"}

S_unknown == <<"u","n","k","n","o","w","n">>

S_noip == <<"n","o","i","p">>

S_noname == <<"n","o","n","a","m","e">>

sanitize(s) ==
    LET s1 == IF s = <<>> THEN S_unknown ELSE s
    IN  [i \in 1..Len(s1) |->
            IF s1[i] = ":" THEN "-"
            ELSE IF s1[i] \in SafeChars THEN s1[i]
            ELSE "_"]

StartsWith(s, prefix) ==
    Len(s) >= Len(prefix) /\ SubSeq(s, 1, Len(prefix)) = prefix

\* x or y for optional strings, None and "" alike
OrElse(x, y) == IF x = <<>> THEN y ELSE x

NoAttachment ==
    [present |-> FALSE, format |-> <<>>, has_data |-> FALSE, b64ok |-> TRUE, bytes |-> <<>>]

NoPath == <<>>

\* position of the last "." of a file name, 0 when there is none
LastDot(name) ==
    LET dots == {i \in 1..Len(name) : name[i] = "."}
    IN  IF dots = {} THEN 0 ELSE CHOOSE i \in dots : \A j \in dots : j <= i

\* pathlib suffix and stem of the last path component
PathSuffix(name) ==
    LET i == LastDot(name)
    IN  IF i > 1 /\ i < Len(name) THEN SubSeq(name, i, Len(name)) ELSE <<>>

PathStem(name) == SubSeq(name, 1, Len(name) - Len(PathSuffix(name)))

\* path.with_name(f"{stem}.<tag>{suffix}")
SiblingPath(path, tag) ==
    <<path[1], path[2], PathStem(path[3]) \o <<".">> \o tag \o PathSuffix(path[3])>>

T_detection == <<"d","e","t","e","c","t","i","o","n">>

T_redacted == <<"r","e","d","a","c","t","e","d">>

FileExists(files, path) == path # NoPath /\ path \in DOMAIN files

WriteFile(files, path, bytes) ==
    [p \in DOMAIN files \cup {path} |-> IF p = path THEN bytes ELSE files[p]]

\* kind: "none" (no attachment), "raise" (base64 or write error), "saved"
save_attachment_file(it, files) ==
    LET att == it.attachment
        fmt0 == Lower(Strip(att.format))
        ext == IF StartsWith(fmt0, <<".">>) THEN Tail(fmt0) ELSE fmt0
        mime == MimeOfExt(ext)
        d1 == sanitize(OrElse(it.public_ip, S_noip))
        d2 == sanitize(OrElse(OrElse(it.hostname, it.pc_name), S_noname))
        stem == sanitize(it.time)
        suffix == IF ext # <<>> THEN <<".">> \o ext ELSE <<".">> \o F_bin
        path == <<d1, d2, stem \o suffix>>
        none == [kind |-> "none", ext |-> <<>>, mime |-> <<>>, path |-> NoPath, files |-> files]
    IN  IF ~att.present \/ att.format = <<>> \/ ~att.has_data THEN none
        ELSE IF ~att.b64ok THEN [none EXCEPT !.kind = "raise"]
        \* a "/" in the extension names a directory that was never created
        ELSE IF Contains(<<"/">>, suffix) THEN [none EXCEPT !.kind = "raise"]
        ELSE [kind |-> "saved", ext |-> ext, mime |-> mime, path |-> path,
              files |-> WriteFile(files, path, att.bytes)]

\* the directory the uploads go to, and where a relative path below it
\* leads: the names from the parent of the downloads root, ".." going up
D_downloads == <<"d","o","w","n","l","o","a","d","s">>

RECURSIVE ResolveFrom(_, _)
ResolveFrom(stack, comps) ==
    IF comps = <<>> THEN stack
    ELSE LET c == Head(comps)
         IN  IF c = <<".", ".">>
             THEN ResolveFrom(IF stack = <<>> THEN <<>> ELSE SubSeq(stack, 1, Len(stack) - 1),
                              Tail(comps))
             ELSE IF c = <<".">> THEN ResolveFrom(stack, Tail(comps))
             ELSE ResolveFrom(Append(stack, c), Tail(comps))

\* out_path.resolve() for a path <<A, B, name>> below the downloads root
Resolve(path) == ResolveFrom(<<D_downloads>>, path)

(***************************************************************************)
(* OCR adapter (services/ocr.py, utils/imaging.py)                         *)
(***************************************************************************)
SupportedImageMimes ==
    {M_image_png, M_image_jpeg, M_image_jpg, M_image_webp, M_image_bmp, M_image_tiff}

is_supported_image_mime(mime) ==
    mime # <<>> /\ Lower(Strip(mime)) \in SupportedImageMimes

is_supported_pdf_mime(mime) == Lower(Strip(mime)) = M_application_pdf

needs_ocr(it) ==
    LET att == it.attachment
    IN  IF ~att.present \/ att.format = <<>> \/ ~att.has_data THEN FALSE
        ELSE LET mime == Strip(Lower(att.format))
             IN  is_supported_image_mime(mime) \/ is_supported_pdf_mime(mime)

\* ocr: what the OCR engine would do with this attachment
run_ocr(it, ocr) ==
    LET no == [text |-> <<>>, used |-> FALSE]
        mime == Strip(Lower(it.attachment.format))
    IN  IF ~needs_ocr(it) THEN no
        ELSE IF ~ocr.tesseract THEN no
        ELSE IF ~it.attachment.b64ok \/ ocr.raises THEN no
        ELSE IF is_supported_image_mime(mime) THEN [text |-> ocr.text, used |-> TRUE]
        ELSE IF ~ocr.pdf2image THEN no
        ELSE [text |-> ocr.text, used |-> TRUE]

(***************************************************************************)
(* Attachment processing (services/files, _process_attachment_saved)       *)
(***************************************************************************)
OFFICE_EXTS == {F_docx, F_pptx, F_xlsx}

PLAIN_EXTS == {F_txt, F_csv}

PDF_EXTS == {F_pdf}

\* File contents are opaque; a tool derives new contents from old ones.
Derived(how, bytes) == <<how>> \o bytes

\* ext of a saved file as the file tools recompute it from the path suffix
SavedExt(saved) ==
    LET sfx == Lower(PathSuffix(saved.path[3]))
    IN  IF sfx # <<>> THEN Tail(sfx) ELSE saved.ext

\* process_saved_file: the files after the document handler ran.
\* tool = "raise": the handler fails before it writes (library missing, read
\* error); "hit": a pattern matched; "none": nothing matched.
process_saved_file(saved, tool, files) ==
    LET ext == SavedExt(saved)
        src == files[saved.path]
        det == SiblingPath(saved.path, T_detection)
    IN  IF ext \in OFFICE_EXTS
        THEN IF tool = "raise" THEN files
             ELSE WriteFile(files, det,
                      Derived(IF tool = "hit" THEN "masked" ELSE "resaved", src))
        ELSE IF ext \in PLAIN_EXTS
        THEN IF tool = "raise" THEN files
             ELSE WriteFile(files, det,
                      IF tool = "hit" THEN Derived("masked", src) ELSE src)
        ELSE files

\* redact_saved_file: kind "raise" when the image tool throws
redact_saved_file(saved, tool, files) ==
    LET ext == SavedExt(saved)
        same == [kind |-> "ok", redacted_path |-> saved.path,
                 redaction_performed |-> FALSE, files |-> files]
        red == SiblingPath(saved.path, T_redacted)
    IN  IF ext \in IMAGE_EXTS \/ ext \in PDF_EXTS
        THEN IF tool = "raise" THEN [same EXCEPT !.kind = "raise"]
             ELSE IF tool = "hit"
             THEN [kind |-> "ok", redacted_path |-> red, redaction_performed |-> TRUE,
                   files |-> WriteFile(files, red, Derived("redacted", files[saved.path]))]
             ELSE same
        ELSE same

NoResponseAttachment ==
    [present |-> FALSE, format |-> <<>>, bytes |-> <<>>, file_change |-> FALSE]

build_response_attachment(att_src, processed_path, file_changed, files) ==
    IF processed_path = NoPath \/ ~FileExists(files, processed_path)
    THEN NoResponseAttachment
    ELSE LET fmt0 == Lower(att_src.format)
             fmt  == IF fmt0 # <<>> THEN fmt0
                     ELSE LET sfx == Lower(PathSuffix(processed_path[3]))
                          IN  IF sfx # <<>> /\ Tail(sfx) # <<>> THEN Tail(sfx) ELSE F_bin
         IN  [present |-> TRUE, format |-> fmt, bytes |-> files[processed_path],
              file_change |-> file_changed]

\* the variant that hands every saved file to the document handler
process_attachment_always(saved, att_src, mon, tool, files) ==
    IF saved.kind # "saved"
    THEN [processed_path |-> NoPath, attachment |-> NoResponseAttachment,
          files |-> files, calls |-> <<>>]
    ELSE [processed_path |-> SiblingPath(saved.path, T_detection),
          attachment |-> build_response_attachment(
                            att_src, SiblingPath(saved.path, T_detection), TRUE,
                            WriteFile(files, SiblingPath(saved.path, T_detection),
                                      Derived("masked", files[saved.path]))),
          files |-> WriteFile(files, SiblingPath(saved.path, T_detection),
                              Derived("masked", files[saved.path])),
          calls |-> <<"document">>]

\* saved.kind = "saved" or "none"; returns the response attachment, the files
\* after processing and the tools that ran
process_attachment_saved(saved, att_src, mon, tool, files) ==
    IF saved.kind # "saved"
    THEN [processed_path |-> NoPath, attachment |-> NoResponseAttachment,
          files |-> files, calls |-> <<>>]
    ELSE IF ~mon
    THEN [processed_path |-> saved.path,
          attachment |-> build_response_attachment(att_src, saved.path, FALSE, files),
          files |-> files, calls |-> <<>>]
    ELSE LET ext == Lower(saved.ext)
         IN  IF ext \in DOC_EXTS /\ ext # F_pdf
             THEN LET files1 == process_saved_file(saved, tool, files)
                      det == SiblingPath(saved.path, T_detection)
                      found == FileExists(files1, det)
                      pp == IF found THEN det ELSE saved.path
                  IN  [processed_path |-> pp,
                       attachment |-> build_response_attachment(att_src, pp, found, files1),
                       files |-> files1, calls |-> <<"document">>]
             ELSE LET r == redact_saved_file(saved, tool, files)
                      changed == r.redaction_performed /\ r.redacted_path # saved.path
                  IN  IF r.kind = "raise"
                      THEN [processed_path |-> NoPath, attachment |-> NoResponseAttachment,
                            files |-> files, calls |-> <<"redactor">>]
                      ELSE [processed_path |-> r.redacted_path,
                            attachment |-> build_response_attachment(
                                              att_src, r.redacted_path, changed, r.files),
                            files |-> r.files, calls |-> <<"redactor">>]

(***************************************************************************)
(* DbLoggingService.handle (services/db_logging.py)                        *)
(***************************************************************************)
\* the threshold 0.4, in hundredths
SIMILARITY_THRESHOLD == 40

S_mask == <<"m","a","s","k">>

S_block == <<"b","l","o","c","k">>

S_allow == <<"a","l","l","o","w">>

LabelsOf(ents) == {ents[i].label : i \in 1..Len(ents)}

\* "Detected: ..." fallback of lines 571-574, as one clause
DetectedAlert(ents) == <<[src |-> "detected", labels |-> LabelsOf(ents)]>>

NoOut ==
    [request_id |-> 0, host |-> <<>>, modified_prompt |-> <<>>, has_sensitive |-> FALSE,
     entities |-> <<>>, file_blocked |-> FALSE, allow |-> FALSE, action |-> "none",
     alert |-> <<>>, attachment |-> NoResponseAttachment]

NoLocals ==
    [monitored |-> FALSE, response_method |-> <<>>, ocr_used |-> FALSE, ocr_text |-> <<>>,
     regex_ents_ocr |-> <<>>, regex_ents_prompt |-> <<>>, ai_ents_rebased |-> <<>>,
     det_has |-> FALSE, sensitive_any |-> FALSE, similar |-> FALSE,
     saved_path |-> NoPath, saved_mime |-> <<>>]

\* the variant whose block answer carries the original prompt
DecideBlockUnmasked(response_method, sensitive_any, file_sensitive, similar, prompt_text, prompt_entities) ==
    IF sensitive_any /\ response_method = S_block /\ ~similar
    THEN [allow |-> FALSE,
          action |-> IF file_sensitive THEN "block_file_sensitive" ELSE "block_sensitive",
          file_blocked |-> file_sensitive,
          modified_prompt |-> prompt_text]
    ELSE [allow |-> TRUE, action |-> "allow", file_blocked |-> FALSE,
          modified_prompt |-> prompt_text]

\* the variant that lets an unrecognised response method through unmasked
DecideUnknownAllows(response_method, sensitive_any, file_sensitive, similar, prompt_text, prompt_entities) ==
    IF sensitive_any /\ response_method # S_block /\ response_method # S_mask
    THEN [allow |-> TRUE, action |-> "allow_sensitive", file_blocked |-> FALSE,
          modified_prompt |-> prompt_text]
    ELSE [allow |-> TRUE, action |-> "mask_and_allow", file_blocked |-> FALSE,
          modified_prompt |-> mask_by_entities(prompt_text, prompt_entities)]

\* The policy decision of lines 488-555 for a monitored request.
Decide(response_method, sensitive_any, file_sensitive, similar, prompt_text, prompt_entities) ==
    LET masked == mask_by_entities(prompt_text, prompt_entities)
        base ==
            IF sensitive_any
            THEN IF response_method = S_block
                 THEN [allow |-> FALSE,
                       action |-> IF file_sensitive THEN "block_file_sensitive"
                                  ELSE "block_sensitive",
                       file_blocked |-> file_sensitive,
                       modified_prompt |-> masked]
                 ELSE IF response_method = S_allow
                 THEN [allow |-> TRUE, action |-> "allow_sensitive",
                       file_blocked |-> FALSE, modified_prompt |-> prompt_text]
                 ELSE [allow |-> TRUE, action |-> "mask_and_allow",
                       file_blocked |-> FALSE, modified_prompt |-> masked]
            ELSE [allow |-> TRUE, action |-> "allow",
                  file_blocked |-> FALSE, modified_prompt |-> prompt_text]
    IN  IF similar
        THEN [base EXCEPT !.file_blocked = TRUE, !.allow = FALSE,
                          !.action = "block_upload_similar"]
        ELSE base

\* The guard of the similarity override, lines 541-550.
SimilarityChecked(saved, ocr, sim) ==
    /\ saved.mime # <<>>
    /\ StartsWith(saved.mime, M_image)
    /\ ocr.used
    /\ (ocr.text = <<>> \/ Len(Strip(ocr.text)) < 3)
    /\ saved.path # NoPath
    /\ sim.exists

SimilarityFires(saved, ocr, sim) ==
    /\ SimilarityChecked(saved, ocr, sim)
    /\ ~sim.raises
    /\ sim.score >= SIMILARITY_THRESHOLD

\* settings load and service filter, lines 359-362 and 488
ReadPolicy(it, e) ==
    LET cfg == load_settings_config(e.settings)
    IN  [monitored |-> is_monitored_by_settings(cfg, OrElse(it.interface, S_llm), it.host),
         response_method |->
             Lower(Strip(OrElse(IF HasKey(cfg, "response_method")
                                THEN cfg["response_method"] ELSE <<>>, S_mask)))]

\* steps 2 to 6, lines 377-481: OCR, the regex passes, the language model,
\* rebasing and merging
Detect(it, e, mon) ==
    LET ocr == IF mon THEN run_ocr(it, e.ocr) ELSE [text |-> <<>>, used |-> FALSE]
        regex_ents_prompt == IF mon THEN regex_pass(it.prompt, e.fault) ELSE <<>>
        det_ai == IF mon THEN analyze_text(e.ai)
                  ELSE [has_sensitive |-> FALSE, entities |-> <<>>]
    IN  [ocr |-> ocr,
         \* normalize_obfuscated_numbers is called outside the try blocks
         raised |-> mon /\ e.fault = "normalize",
         regex_ents_ocr |-> IF mon /\ ocr.used /\ ocr.text # <<>>
                           THEN regex_pass(ocr.text, e.fault) ELSE <<>>,
         regex_ents_prompt |-> regex_ents_prompt,
         masked_for_ai |-> IF mon
                           THEN mask_with_parens_by_entities(it.prompt, regex_ents_prompt)
                           ELSE <<>>,
         det_has |-> det_ai.has_sensitive,
         ai_ents_rebased |-> rebase_ai_entities_on_original(it.prompt, det_ai.entities)]

Merged(det) == dedup_spans(det.regex_ents_prompt, det.ai_ents_rebased)

\* the variant that ignores the language model's flag
SensitiveAnyNoFlag(mon, det, prompt_entities) ==
    mon /\ (prompt_entities # <<>> \/ det.regex_ents_ocr # <<>>)

SensitiveAny(mon, det, prompt_entities) ==
    mon /\ (prompt_entities # <<>> \/ det.regex_ents_ocr # <<>> \/ det.det_has)

\* step 9, lines 566-574
AlertText(mon, det, prompt_entities) ==
    LET alert0 == build_alert_from_merged(prompt_entities, det.regex_ents_prompt,
                                          det.ai_ents_rebased)
    IN  IF ~mon THEN <<>>
        ELSE IF alert0 = <<>> /\ prompt_entities # <<>>
        THEN DetectedAlert(prompt_entities)
        ELSE alert0

\* the stages that ran, in the order the handler runs them
Stages(mon, proc, det, checked) ==
    <<"settings", "save">> \o proc.calls
        \o (IF mon THEN <<"ocr">> ELSE <<>>)
        \o (IF mon /\ det.ocr.used /\ det.ocr.text # <<>>
            THEN <<"regex", "normalize", "regex">> ELSE <<>>)
        \o (IF mon THEN <<"regex", "normalize", "regex", "mask", "llm", "policy">> ELSE <<>>)
        \o (IF checked THEN <<"similarity">> ELSE <<>>)
        \o <<"create">>

\* steps 7 to 11, lines 483-620, once detection is done
Finish(it, e, rid, pol, saved, proc, det, prompt_entities, sensitive_any, similar) ==
    LET mon == pol.monitored
        d == IF mon
             THEN Decide(pol.response_method, sensitive_any, det.regex_ents_ocr # <<>>,
                         similar, it.prompt, prompt_entities)
             ELSE [allow |-> TRUE, action |-> "allow_unmonitored",
                   file_blocked |-> FALSE, modified_prompt |-> it.prompt]
        rec == [request_id |-> rid,
                host |-> OrElse(it.host, S_unknown),
                modified_prompt |-> d.modified_prompt,
                has_sensitive |-> sensitive_any,
                entities |-> prompt_entities,
                file_blocked |-> d.file_blocked,
                allow |-> d.allow,
                action |-> d.action,
                alert |-> <<>>,
                attachment |-> [NoResponseAttachment EXCEPT
                                   !.present = it.attachment.present,
                                   !.format = it.attachment.format,
                                   !.bytes = it.attachment.bytes]]
    IN  [raised |-> FALSE,
         out |-> [rec EXCEPT !.alert = AlertText(mon, det, prompt_entities),
                             !.attachment = proc.attachment],
         rec |-> rec,
         files |-> proc.files,
         calls |-> Stages(mon, proc, det, mon /\ SimilarityChecked(saved, det.ocr, e.sim)),
         locals |-> [monitored |-> mon, response_method |-> pol.response_method,
                     ocr_used |-> det.ocr.used, ocr_text |-> det.ocr.text,
                     regex_ents_ocr |-> det.regex_ents_ocr,
                     regex_ents_prompt |-> det.regex_ents_prompt,
                     ai_ents_rebased |-> det.ai_ents_rebased,
                     det_has |-> det.det_has,
                     sensitive_any |-> sensitive_any, similar |-> similar,
                     saved_path |-> saved.path, saved_mime |-> saved.mime]]

HandleDetected(it, e, rid, pol, saved, proc, det, prompt_entities) ==
    Finish(it, e, rid, pol, saved, proc, det, prompt_entities,
           SensitiveAny(pol.monitored, det, prompt_entities),
           pol.monitored /\ SimilarityFires(saved, det.ocr, e.sim))

\* the attachment is processed; the handler then runs detection, and an
\* exception of the normalizer leaves it
HandleProcessed(it, e, rid, pol, saved, proc, det) ==
    IF det.raised
    THEN [raised |-> TRUE, out |-> NoOut, rec |-> NoOut, files |-> proc.files,
          calls |-> <<"settings", "save">> \o proc.calls \o <<"ocr", "regex", "normalize">>,
          locals |-> [NoLocals EXCEPT !.monitored = pol.monitored]]
    ELSE HandleDetected(it, e, rid, pol, saved, proc, det, Merged(det))

HandleSaved(it, e, rid, pol, saved, det) ==
    HandleProcessed(it, e, rid, pol, saved,
                    process_attachment_saved(saved, it.attachment, pol.monitored,
                                             e.tool, saved.files),
                    det)

HandlePolicy(it, e, files, rid, pol, saved) ==
    IF saved.kind = "raise"
    THEN [raised |-> TRUE, out |-> NoOut, rec |-> NoOut, files |-> files,
          calls |-> <<"settings", "save">>,
          locals |-> [NoLocals EXCEPT !.monitored = pol.monitored]]
    ELSE HandleSaved(it, e, rid, pol, saved, Detect(it, e, pol.monitored))

\* One run of the handler on request it in environment e with the files on
\* disk, under request id rid.  raised: an exception leaves the handler.
handle(it, e, files, rid) ==
    HandlePolicy(it, e, files, rid, ReadPolicy(it, e), save_attachment_file(it, files))

(***************************************************************************)
(* Legacy router POST /logs (routers/logs.py, services/detect.py)          *)
(***************************************************************************)
\* the rule table of services/detect.py on the alphabet of the model
LEGACY_PATTERNS ==
    << [label |-> L_PHONE,   word |-> <<"0","1">>],
       [label |-> L_CARD_NO, word |-> <<"1","1">>] >>

RECURSIVE LegacyFoundFrom(_, _)
LegacyFoundFrom(text, k) ==
    IF k > Len(LEGACY_PATTERNS) THEN <<>>
    ELSE LET ms == FindIter(text, LEGACY_PATTERNS[k].word, 0)
         IN  [i \in 1..Len(ms) |->
                 [label |-> LEGACY_PATTERNS[k].label,
                  value |-> Slice(text, ms[i].begin, ms[i].end),
                  begin |-> ms[i].begin,
                  end   |-> ms[i].end]]
             \o LegacyFoundFrom(text, k + 1)

\* detect_entities of services/detect.py: every match, sorted, overlaps kept
legacy_detect_entities(text) ==
    IF text = <<>> THEN <<>>
    ELSE SortByBeginLen(LegacyFoundFrom(text, 1))

has_sensitive_any(prompt_entities, ocr_entities) ==
    prompt_entities # <<>> \/ ocr_entities # <<>>

ingest(it, e, rid) ==
    LET ocr == run_ocr(it, e.ocr)
        prompt_text == it.prompt
        prompt_entities == legacy_detect_entities(prompt_text)
        ocr_entities == IF ocr.used /\ ocr.text # <<>>
                        THEN legacy_detect_entities(ocr.text) ELSE <<>>
        blocked == ocr.used /\ ocr_entities # <<>>
    IN  [request_id |-> rid,
         host |-> OrElse(it.host, S_unknown),
         modified_prompt |-> mask_by_entities(prompt_text, prompt_entities),
         has_sensitive |-> has_sensitive_any(prompt_entities, ocr_entities),
         entities |-> prompt_entities,
         file_blocked |-> blocked,
         allow |-> ~blocked,
         action |-> IF blocked THEN "block_upload"
                    ELSE IF prompt_entities # <<>> THEN "mask_and_allow" ELSE "allow",
         alert |-> <<>>,
         attachment |-> NoResponseAttachment]

(***************************************************************************)
(* Requests and environments                                               *)
(***************************************************************************)
MaxLen == 3

MaxAi == 2

Alphabet == {"0", "1", "o", "z"}

SeqsUpTo(S, n) == UNION {[1..k -> S] : k \in 0..n}

Prompts == SeqsUpTo(Alphabet, MaxLen)

H_chatgpt == <<"c","h","a","t","g","p","t",".","c","o","m">>

H_ChatGPT == <<" ","C","h","a","t","G","P","T",".","c","o","m">>

H_claude == <<"c","l","a","u","d","e",".","a","i">>

H_both == <<"c","l","a","u","d","e",".","c","h","a","t","g","p","t",".","c","o","m">>

H_copilot == <<"c","o","p","i","l","o","t",".","l","o","c","a","l">>

H_other == <<"e","x","a","m","p","l","e",".","o","r","g">>

NoItem ==
    [time |-> <<>>, public_ip |-> <<>>, hostname |-> <<>>, pc_name |-> <<>>,
     host |-> <<>>, interface |-> <<>>, prompt |-> <<>>, attachment |-> NoAttachment]

BaseItem ==
    [NoItem EXCEPT !.time = <<"1","0",":","3","0">>, !.public_ip = <<"1","0",".","0",".","0",".","1">>,
                   !.pc_name = <<"p","c"," ","1">>, !.host = H_chatgpt]

NoRow == [kind |-> "norow", cfg |-> NotADict]

Row(f) == [kind |-> "row", cfg |-> Dict(f)]

NoAi == [kind |-> "ok", has |-> FALSE, entities |-> <<>>]

NoOcr == [tesseract |-> TRUE, pdf2image |-> TRUE, raises |-> FALSE, text |-> <<>>]

NoSim == [exists |-> FALSE, raises |-> FALSE, score |-> 0]

BaseEnv ==
    [settings |-> NoRow, ai |-> NoAi, ocr |-> NoOcr, tool |-> "none", sim |-> NoSim,
     fault |-> "none"]

\* what the language model may answer
AiTypes == {L_NAME, <<"p","h","o","n","e">>}

AiValues == {<<"1">>, <<"0","1">>}

AiEntityLists == SeqsUpTo([type : AiTypes, value : AiValues], MaxAi)

AiOutcomes ==
    {[kind |-> "ok", has |-> h, entities |-> es] : h \in BOOLEAN, es \in AiEntityLists}

AiFew ==
    { NoAi,
      [NoAi EXCEPT !.has = TRUE],
      [NoAi EXCEPT !.has = TRUE, !.entities = <<[type |-> L_NAME, value |-> <<"1">>]>>],
      [NoAi EXCEPT !.entities = <<[type |-> <<" ","n","a","m","e"," ">>, value |-> <<" ","1"," ">>]>>],
      [NoAi EXCEPT !.entities = <<[type |-> <<>>, value |-> <<"1">>]>>],
      [NoAi EXCEPT !.has = TRUE, !.entities = <<[type |-> L_BOGUS, value |-> <<"1">>]>>],
      [NoAi EXCEPT !.kind = "load_fail"],
      [NoAi EXCEPT !.kind = "infer_fail"] }

\* service_filters[interface] mappings over a few keys of the host tables
LlmKeys == {"gpt", "claude", "other"}

McpKeys == {"gpt_desktop", "vscode_copilot"}

MappingsOver(keys) == UNION {[K -> BOOLEAN] : K \in SUBSET keys}

Filters(itf, m) == ("service_filters" :> Dict(itf :> Dict(m)))

PolicySettings ==
    { [kind |-> "raise", cfg |-> NotADict], NoRow,
      [kind |-> "row", cfg |-> NotADict],
      Row(EmptyDict),
      Row(("service_filters" :> NotADict)),
      Row(("service_filters" :> Dict(EmptyDict))),
      Row(("service_filters" :> Dict(S_llm :> NotADict))) }
    \cup {Row(Filters(S_llm, m)) : m \in MappingsOver(LlmKeys)}
    \cup {Row(Filters(S_mcp, m)) : m \in MappingsOver(McpKeys)}
    \cup {Row(Filters(<<"w","e","b">>, m)) : m \in MappingsOver({"gpt"})}

PolicyInterfaces == {<<>>, S_llm, <<" ","L","L","M"," ">>, S_mcp, <<"w","e","b">>}

PolicyHosts == {<<>>, H_chatgpt, H_ChatGPT, H_claude, H_both, H_copilot, H_other}

ResponseMethods ==
    {<<>>, S_mask, S_block, S_allow, <<" ","B","l","o","c","k"," ">>, <<"A","L","L","O","W">>, <<"w","e","i","r","d">>}

MethodSettings ==
    {NoRow} \cup {Row(("response_method" :> rm)) : rm \in ResponseMethods}

Unmonitored == Row(Filters(S_llm, ("gpt" :> FALSE)) @@ ("response_method" :> S_block))

Formats ==
    {F_png, <<".","P","N","G">>, M_image_png, F_jpg, F_pdf, M_application_pdf,
     F_txt, F_docx, <<"e","x","e">>}

Attachments ==
    {NoAttachment,
     [present |-> TRUE, format |-> <<>>, has_data |-> TRUE, b64ok |-> TRUE, bytes |-> <<"b1">>],
     [present |-> TRUE, format |-> F_png, has_data |-> FALSE, b64ok |-> TRUE, bytes |-> <<>>],
     [present |-> TRUE, format |-> F_png, has_data |-> TRUE, b64ok |-> FALSE, bytes |-> <<>>]}
    \cup {[present |-> TRUE, format |-> f, has_data |-> TRUE, b64ok |-> TRUE, bytes |-> <<"b1">>]
            : f \in Formats}

OcrOutcomes ==
    {NoOcr, [NoOcr EXCEPT !.text = <<"0","1">>], [NoOcr EXCEPT !.text = <<" ","1">>],
     [NoOcr EXCEPT !.text = <<"1","1","1","1">>],
     [NoOcr EXCEPT !.tesseract = FALSE], [NoOcr EXCEPT !.raises = TRUE],
     [NoOcr EXCEPT !.pdf2image = FALSE, !.text = <<"0","1">>]}

SimOutcomes ==
    {NoSim, [NoSim EXCEPT !.exists = TRUE, !.score = 82],
     [NoSim EXCEPT !.exists = TRUE, !.score = 40],
     [NoSim EXCEPT !.exists = TRUE, !.score = 39],
     [NoSim EXCEPT !.exists = TRUE, !.raises = TRUE, !.score = 82]}

\* spans: every short prompt against every answer of the language model
FamSpans ==
    {<<[BaseItem EXCEPT !.prompt = p], [BaseEnv EXCEPT !.ai = a]>>
        : p \in Prompts, a \in AiOutcomes}

\* policy: response methods and service filters against a few prompts
FamPolicy ==
    {<<[BaseItem EXCEPT !.prompt = p, !.host = h],
       [BaseEnv EXCEPT !.settings = s, !.ai = a]>>
        : p \in {<<>>, <<"1">>, <<"0","1">>, <<"0","z","1">>}, h \in {H_chatgpt, H_other},
          s \in MethodSettings \cup {Unmonitored}, a \in AiFew}

\* files: attachments against the tools that read them
FamFiles ==
    {<<[BaseItem EXCEPT !.prompt = p, !.attachment = a],
       [BaseEnv EXCEPT !.settings = s, !.ocr = o, !.tool = t, !.sim = m]>>
        : p \in {<<"1">>, <<"0","1">>}, a \in Attachments,
          s \in {NoRow, Row(("response_method" :> S_block)), Unmonitored},
          o \in OcrOutcomes, t \in {"none", "hit", "raise"}, m \in SimOutcomes}

\* faults: the regex detector or the normalizer raises
FamFaults ==
    {<<[BaseItem EXCEPT !.prompt = p, !.attachment = a],
       [BaseEnv EXCEPT !.settings = s, !.fault = f, !.ocr = o]>>
        : p \in {<<>>, <<"1">>, <<"0","1">>, <<"0","z","1">>},
          a \in {NoAttachment,
                 [NoAttachment EXCEPT !.present = TRUE, !.format = F_txt,
                                      !.has_data = TRUE, !.bytes = <<"b1">>],
                 [NoAttachment EXCEPT !.present = TRUE, !.format = M_image_png]},
          s \in {NoRow, Unmonitored}, f \in {"regex", "normalize"},
          o \in {NoOcr, [NoOcr EXCEPT !.text = <<"0","1">>]}}

\* paths: the fields that name the upload directory and file
FamPaths ==
    {<<[BaseItem EXCEPT !.public_ip = ip, !.hostname = hn, !.pc_name = pn, !.time = tm,
                        !.attachment = [NoAttachment EXCEPT !.present = TRUE, !.format = f,
                                           !.has_data = TRUE, !.bytes = <<"b1">>]],
       BaseEnv>>
        : ip \in {<<>>, <<".",".">>, <<"1","0",".","0",".","0",".","1">>},
          hn \in {<<>>, <<"h">>},
          pn \in {<<>>, <<".",".">>, <<"p","c"," ","1">>, <<"p","c","_","1">>},
          tm \in {<<"1","0",":","3","0">>, <<"1","0","-","3","0">>},
          f \in {F_png, <<".",".","p","n","g">>}}

\* the worked example of a name only the language model finds; each Hangul
\* syllable of the prompt is one character, written here by its romanisation
P_name_is_hong == <<"je", " ", "i", "reum", "eun", " ", "hong", "gil", "dong", "ip", "ni", "da">>

V_hong == <<"hong", "gil", "dong">>

FamExample ==
    {<<[BaseItem EXCEPT !.prompt = P_name_is_hong],
       [BaseEnv EXCEPT !.ai = [NoAi EXCEPT !.has = TRUE,
                                  !.entities = <<[type |-> L_NAME, value |-> V_hong]>>]]>>}

Requests == FamSpans \cup FamPolicy \cup FamFiles \cup FamFaults \cup FamPaths \cup FamExample

LegacyRequests ==
    {<<[BaseItem EXCEPT !.prompt = p, !.attachment = a], [BaseEnv EXCEPT !.ocr = o]>>
        : p \in {<<>>, <<"1">>, <<"0","1">>, <<"0","1","1">>}, a \in Attachments, o \in OcrOutcomes}

PolicyRequests ==
    {<<[BaseItem EXCEPT !.interface = i, !.host = h], [BaseEnv EXCEPT !.settings = s]>>
        : i \in PolicyInterfaces, h \in PolicyHosts, s \in PolicySettings}

(***************************************************************************)
(* The server: one request at a time through its route                     *)
(***************************************************************************)
NoFiles == <<>>

(***************************************************************************)
(* The process: environment, module import, the shared model cache         *)
(***************************************************************************)
\* worker threads of the server; sync routes run on them concurrently
NThreads == 2

Threads == 1..NThreads

\* calls into the shared model that one run follows
MaxCalls == 3

\* values of the MODEL_DIR environment variable: unset, or a directory
ModelDirs == {<<>>, <<"m">>}

\* MODEL_DIR default of services/reason_llm.py
REASON_DEFAULT_DIR == <<"r">>

\* OfflineDetectorRunner.__init__ as called for _DETECTOR: the directory the
\* runner keeps, <<>> when the constructor raises
runner_model_dir(environ_dir) ==
    LET arg == Strip(environ_dir)
    IN  IF arg # <<>> THEN arg ELSE environ_dir

\* MODEL_DIR of services/reason_llm.py
reason_model_dir(environ_dir) ==
    IF environ_dir = <<>> THEN REASON_DEFAULT_DIR ELSE environ_dir

\* timeout_sec handed to the runner, in seconds
TIMEOUT_SEC == 20

\* seconds between two observations of a running generation
TickSec == 10

\* generations are followed up to this many seconds
MaxElapsed == 40

NoGlobal == [model_dir |-> <<>>, handle |-> 0]

IdleThread == [pc |-> "idle", kind |-> "none", held |-> 0, elapsed |-> 0, result |-> "none"]

Init ==
    /\ server \in {[environ_dir |-> d, state |-> "starting", global |-> NoGlobal,
                  loads |-> 0, ncalls |-> 0] : d \in ModelDirs}
    /\ thr = [t \in Threads |-> IdleThread]
    /\ pc = "idle"
    /\ route = "none"
    /\ item = NoItem
    /\ env = BaseEnv
    /\ loc = NoLocals
    /\ out = NoOut
    /\ status = 0
    /\ calls = <<>>
    /\ session = {}
    /\ db = {}
    /\ sent = {}
    /\ fs = NoFiles
    /\ uploads = {}
    /\ nextId = 1

\* the server process imports its modules: services/db_logging.py builds
\* _DETECTOR at import, and the constructor raises without a directory
Startup ==
    /\ server.state = "starting"
    /\ server' = [server EXCEPT !.state =
                   IF runner_model_dir(server.environ_dir) = <<>> THEN "failed" ELSE "up"]
    /\ UNCHANGED <<pc, route, item, env, loc, out, status, calls,
                   session, db, sent, fs, uploads, nextId, thr>>

\* a request arrives on a route, in the environment it will run in
Receive(r, requests) ==
    /\ pc = "idle"
    /\ \E q \in requests : item' = q[1] /\ env' = q[2]
    /\ route' = r
    /\ pc' = "received"
    /\ loc' = NoLocals
    /\ out' = NoOut
    /\ status' = 0
    /\ calls' = <<>>
    /\ UNCHANGED <<session, db, sent, fs, uploads, nextId, server, thr>>

\* the effects of one run r of the handler
Handled(r) ==
    /\ fs' = r.files
    /\ calls' = r.calls
    /\ loc' = r.locals
    /\ out' = r.out
    /\ IF r.raised
       THEN /\ session' = {}
            /\ status' = 500
            /\ pc' = "responding"
       ELSE /\ session' = session \cup {r.rec}
            /\ status' = 0
            /\ pc' = "handled"

\* out_path.write_bytes(data) of request id: the path, and the fields of the
\* request that named it
Upload(id, it, path) ==
    [request_id |-> id, path |-> path, time |-> it.time, public_ip |-> it.public_ip,
     pc_name |-> it.pc_name, hostname |-> it.hostname, bytes |-> it.attachment.bytes]

\* DbLoggingService.handle up to LogRepository.create (add and flush)
Handle ==
    /\ pc = "received"
    /\ route = "handle"
    /\ Handled(handle(item, env, fs, nextId))
    /\ uploads' = IF loc'.saved_path = NoPath THEN uploads
                  ELSE uploads \cup {Upload(nextId, item, loc'.saved_path)}
    /\ nextId' = nextId + 1
    /\ UNCHANGED <<route, item, env, db, sent, server, thr>>

\* get_db after the handler returned: commit, or roll back and fail
Commit ==
    /\ pc = "handled"
    /\ \E ok \in BOOLEAN :
          IF ok
          THEN /\ db' = db \cup session
               /\ status' = 200
               /\ out' = out
          ELSE /\ db' = db
               /\ status' = 500
               /\ out' = NoOut
    /\ session' = {}
    /\ pc' = "responding"
    /\ UNCHANGED <<route, item, env, loc, calls, sent, fs, uploads, nextId, server, thr>>

\* the legacy POST /logs handler: no session, no record
Ingest ==
    /\ pc = "received"
    /\ route = "legacy"
    /\ out' = ingest(item, env, nextId)
    /\ status' = 200
    /\ calls' = <<"ocr", "detect", "mask">>
    /\ nextId' = nextId + 1
    /\ pc' = "responding"
    /\ UNCHANGED <<route, item, env, loc, session, db, sent, fs, uploads, server, thr>>

\* the response leaves the server
Respond ==
    /\ pc = "responding"
    /\ sent' = sent \cup {[status |-> status, request_id |-> out.request_id]}
    /\ pc' = "idle"
    /\ UNCHANGED <<route, item, env, loc, out, status, calls, session, db, fs, uploads, nextId, server, thr>>

\* Spec follows the first request from an empty store to its response.
Next ==
    \/ Startup
    \/ sent = {} /\ server.state = "up" /\ Receive("handle", Requests)
    \/ sent = {} /\ server.state # "starting" /\ Receive("legacy", LegacyRequests)
    \/ Handle
    \/ Commit
    \/ Ingest
    \/ Respond

Spec == Init /\ [][Next]_vars

(***************************************************************************)
(* The shared model under concurrent callers                               *)
(* (services/ai_external.py, services/reason_llm.py)                       *)
(***************************************************************************)
pipeline == <<pc, route, item, env, loc, out, status, calls,
              session, db, sent, fs, uploads, nextId>>

\* the directory a caller of kind k hands to _ensure_model_loaded
CallerDir(k) ==
    IF k = "detect" THEN runner_model_dir(server.environ_dir)
    ELSE reason_model_dir(server.environ_dir)

\* a worker thread enters analyze_text ("detect") or _run_llm ("reason")
Call(t, k) ==
    /\ thr[t].pc = "idle"
    /\ server.ncalls < MaxCalls
    /\ IF k = "detect" THEN server.state = "up" ELSE server.state # "starting"
    /\ thr' = [thr EXCEPT ![t] = [IdleThread EXCEPT !.pc = "ensure", !.kind = k]]
    /\ server' = [server EXCEPT !.ncalls = @ + 1]
    /\ UNCHANGED pipeline

\* _ensure_model_loaded: the test of the cache
EnsureCheck(t) ==
    /\ thr[t].pc = "ensure"
    /\ IF /\ server.global.model_dir = CallerDir(thr[t].kind)
          /\ server.global.handle # 0
       THEN thr' = [thr EXCEPT ![t].pc = "ready", ![t].held = server.global.handle]
       ELSE thr' = [thr EXCEPT ![t].pc = "loading"]
    /\ UNCHANGED <<server, pipeline>>

\* _ensure_model_loaded: from_pretrained returned, the cache is replaced
LoadOk(t) ==
    /\ thr[t].pc = "loading"
    /\ server' = [server EXCEPT !.loads = @ + 1,
                                !.global = [model_dir |-> CallerDir(thr[t].kind),
                                            handle |-> server.loads + 1]]
    /\ thr' = [thr EXCEPT ![t].pc = "ready", ![t].held = server.loads + 1]
    /\ UNCHANGED pipeline

\* _ensure_model_loaded raised: analyze_text answers its fallback, _run_llm
\* lets the exception through
LoadFail(t) ==
    /\ thr[t].pc = "loading"
    /\ thr' = [thr EXCEPT ![t].pc = "returned",
                          ![t].result = IF thr[t].kind = "detect"
                                        THEN "model_load_fail" ELSE "raised"]
    /\ UNCHANGED <<server, pipeline>>

\* model.generate is entered
Generate(t) ==
    /\ thr[t].pc = "ready"
    /\ thr' = [thr EXCEPT ![t].pc = "generating", ![t].elapsed = 0]
    /\ UNCHANGED <<server, pipeline>>

\* time passes while model.generate runs
Tick(t) ==
    /\ thr[t].pc = "generating"
    /\ thr[t].elapsed + TickSec <= MaxElapsed
    /\ thr' = [thr EXCEPT ![t].elapsed = @ + TickSec]
    /\ UNCHANGED <<server, pipeline>>

\* model.generate returns or raises
GenerateReturn(t) ==
    /\ thr[t].pc = "generating"
    /\ \E ok \in BOOLEAN :
          thr' = [thr EXCEPT ![t].pc = "returned",
                             ![t].result = IF ok THEN "ok"
                                           ELSE IF thr[t].kind = "detect"
                                           THEN "infer_fail" ELSE "raised"]
    /\ UNCHANGED <<server, pipeline>>

\* the caller has its result; the borrow ends
Return(t) ==
    /\ thr[t].pc = "returned"
    /\ thr' = [thr EXCEPT ![t] = IdleThread]
    /\ UNCHANGED <<server, pipeline>>

NextLLM ==
    \/ Startup
    \/ \E t \in Threads : \E k \in {"detect", "reason"} : Call(t, k)
    \/ \E t \in Threads : EnsureCheck(t)
    \/ \E t \in Threads : LoadOk(t)
    \/ \E t \in Threads : LoadFail(t)
    \/ \E t \in Threads : Generate(t)
    \/ \E t \in Threads : Tick(t)
    \/ \E t \in Threads : GenerateReturn(t)
    \/ \E t \in Threads : Return(t)

SpecLLM == Init /\ [][NextLLM]_vars

(***************************************************************************)
(* The service filter alone, on a wide range of settings                   *)
(***************************************************************************)
EvalPolicy ==
    /\ pc = "received"
    /\ route = "policy"
    /\ loc' = [NoLocals EXCEPT !.monitored =
                  is_monitored_by_settings(load_settings_config(env.settings),
                                           OrElse(item.interface, S_llm), item.host)]
    /\ calls' = <<"settings">>
    /\ pc' = "decided"
    /\ UNCHANGED <<route, item, env, out, status, session, db, sent, fs, uploads, nextId, server, thr>>

NextPolicy ==
    \/ Receive("policy", PolicyRequests)
    \/ EvalPolicy

SpecPolicy == Init /\ [][NextPolicy]_vars

(***************************************************************************)
(* Properties of the service filter                                        *)
(***************************************************************************)
\* the interface key the filter looks up, and the settings as stored
PolicyItf == Lower(Strip(OrElse(item.interface, S_llm)))

PolicyHasRow == env.settings.kind = "row" /\ IsDict(env.settings.cfg)

PolicyHasFilters ==
    /\ PolicyHasRow
    /\ HasKey(env.settings.cfg.d, "service_filters")
    /\ IsDict(env.settings.cfg.d["service_filters"])

PolicyFilters == env.settings.cfg.d["service_filters"].d

PolicyHasM ==
    /\ PolicyHasFilters
    /\ HasKey(PolicyFilters, PolicyItf)
    /\ IsDict(PolicyFilters[PolicyItf])

PolicyM == PolicyFilters[PolicyItf].d

PolicyTable ==
    IF PolicyItf = S_llm THEN LLM_HOST_MAP
    ELSE IF PolicyItf = S_mcp THEN MCP_HOST_MAP
    ELSE <<>>

PolicyHostHits ==
    {i \in 1..Len(PolicyTable) : Contains(PolicyTable[i].substr, Lower(item.host))}

\* C6: with no usable entry for the interface (settings read fails, no row,
\* service_filters absent, no entry for the interface, or an empty mapping
\* for it) the request is monitored, whatever the host.
C6_NoUsableEntryIsMonitored ==
    (/\ pc = "decided"
     /\ \/ env.settings.kind = "raise"
        \/ env.settings.kind = "norow"
        \/ PolicyHasRow /\ ~HasKey(env.settings.cfg.d, "service_filters")
        \/ PolicyHasFilters /\ ~HasKey(PolicyFilters, PolicyItf)
        \/ PolicyHasM /\ DOMAIN PolicyM = {})
    => loc.monitored

\* C6 without the empty mapping: in the four other cases the request is
\* monitored.
C6_MissingEntryIsMonitored ==
    (/\ pc = "decided"
     /\ \/ env.settings.kind = "raise"
        \/ env.settings.kind = "norow"
        \/ PolicyHasRow /\ ~HasKey(env.settings.cfg.d, "service_filters")
        \/ PolicyHasFilters /\ ~HasKey(PolicyFilters, PolicyItf))
    => loc.monitored

C6_EmptyMappingSeen ==
    /\ pc = "decided"
    /\ PolicyHasM
    /\ DOMAIN PolicyM = {}
    /\ item.host = H_other

\* C7: for a non-empty mapping M of the interface, all values false gives
\* monitored = false; otherwise the first table entry (in table order) whose
\* substring occurs in the lower-cased host decides with M[key], and a host
\* that matches no entry is monitored.  chatgpt.com with M.gpt = false and
\* another value true is not monitored.
C7_FirstHostMatchDecides ==
    (pc = "decided" /\ PolicyHasM /\ DOMAIN PolicyM # {})
    => /\ (\A k \in DOMAIN PolicyM : ~PolicyM[k]) => ~loc.monitored
       /\ (\E k \in DOMAIN PolicyM : PolicyM[k]) =>
             /\ PolicyHostHits = {} => loc.monitored
             /\ \A i \in PolicyHostHits :
                   (/\ \A j \in PolicyHostHits : i <= j
                    /\ HasKey(PolicyM, PolicyTable[i].key))
                   => loc.monitored = PolicyM[PolicyTable[i].key]
       /\ (/\ item.host = H_chatgpt
           /\ PolicyItf = S_llm
           /\ HasKey(PolicyM, "gpt") /\ ~PolicyM["gpt"]
           /\ \E k \in DOMAIN PolicyM : PolicyM[k]) => ~loc.monitored

\* a host that matches two table entries, the first unchecked and the later
\* one checked, has been decided
C7_FirstOfTwoMatchesSeen ==
    /\ pc = "decided"
    /\ PolicyHasM
    /\ PolicyItf = S_llm
    /\ item.host = H_both
    /\ HasKey(PolicyM, "gpt") /\ ~PolicyM["gpt"]
    /\ HasKey(PolicyM, "claude") /\ PolicyM["claude"]
    /\ ~loc.monitored

(***************************************************************************)
(* Properties of the ingestion pipeline                                    *)
(***************************************************************************)
\* the handler has built its response and flushed its record
Built == pc = "handled" /\ route = "handle"

\* the record the handler flushed for the response it built
BuiltRecord == CHOOSE r \in session : r.request_id = out.request_id

\* sensitive_any as the policy states it: an accepted prompt entity, a regex
\* entity in the OCR text, or the language model's flag
SensitiveSeen ==
    out.entities # <<>> \/ loc.regex_ents_ocr # <<>> \/ loc.det_has

\* the response method as stored in the settings row, <<>> when absent
StoredMethod ==
    IF /\ env.settings.kind = "row"
       /\ IsDict(env.settings.cfg)
       /\ HasKey(env.settings.cfg.d, "response_method")
    THEN env.settings.cfg.d["response_method"]
    ELSE <<>>

MaskedPrompt == mask_by_entities(item.prompt, out.entities)

SuccessIds == {s.request_id : s \in {t \in sent : t.status = 200}}

\* C1: once a request is answered, a success response has exactly one
\* committed LogRecord under its request_id, every committed record has its
\* success response, and a failed request leaves no record.
C1_OneRecordPerSuccess ==
    pc = "idle" =>
       /\ \A s \in sent :
             s.status = 200 =>
                Cardinality({r \in db : r.request_id = s.request_id}) = 1
       /\ \A r \in db : r.request_id \in SuccessIds
       /\ Cardinality(db) = Cardinality(SuccessIds)

\* C1 on the route served by DbLoggingService.handle alone.
C1_HandleRouteOneRecordPerSuccess ==
    (pc = "idle" /\ route = "handle") =>
       /\ \A s \in sent :
             s.status = 200 =>
                Cardinality({r \in db : r.request_id = s.request_id}) = 1
       /\ \A r \in db : r.request_id \in SuccessIds
       /\ Cardinality(db) = Cardinality(SuccessIds)

\* the ingest route of routers/logs.py has answered 200 and nothing is stored
C1_IngestSuccessWithoutRecordSeen ==
    /\ pc = "idle"
    /\ route = "legacy"
    /\ db = {}
    /\ \E s \in sent : s.status = 200 /\ s.request_id \notin {r.request_id : r \in db}

\* the handle route has built its response and the commit has failed
C1_FailedCommitSeen ==
    /\ pc = "idle"
    /\ route = "handle"
    /\ calls # <<>>
    /\ calls[Len(calls)] = "create"
    /\ db = {}
    /\ \E s \in sent : s.status = 500

C3_NonBlockDecision ==
    (/\ Built
     /\ loc.monitored
     /\ SensitiveSeen
     /\ loc.response_method # S_block
     /\ ~loc.similar)
    => /\ out.allow
       /\ ~out.file_blocked
       /\ loc.response_method = S_allow =>
             out.action = "allow_sensitive" /\ out.modified_prompt = item.prompt
       /\ loc.response_method # S_allow =>
             out.action = "mask_and_allow" /\ out.modified_prompt = MaskedPrompt
       /\ Lower(Strip(StoredMethod)) \notin {S_allow, S_block} =>
             out.action = "mask_and_allow" /\ out.modified_prompt = MaskedPrompt

C3_UnrecognisedMethodMasksSeen ==
    /\ Built
    /\ loc.monitored
    /\ StoredMethod = <<"w","e","i","r","d">>
    /\ out.action = "mask_and_allow"
    /\ out.allow
    /\ out.entities # <<>>
    /\ out.modified_prompt # item.prompt

\* C4: in a monitored request where the similarity override does not fire,
\* the action is "allow" exactly when nothing sensitive was seen; then, for
\* every response method, allow is true, has_sensitive is false, entities is
\* empty and the prompt is returned unchanged.
C4_AllowIffNothingSensitive ==
    (Built /\ loc.monitored /\ ~loc.similar)
    => /\ (out.action = "allow") <=> ~SensitiveSeen
       /\ ~SensitiveSeen =>
             /\ out.allow
             /\ ~out.has_sensitive
             /\ out.entities = <<>>
             /\ out.modified_prompt = item.prompt

C4_AllowUnderBlockSeen ==
    /\ Built
    /\ loc.monitored
    /\ loc.response_method = S_block
    /\ item.prompt # <<>>
    /\ out.action = "allow"
    /\ out.allow

UnmonitoredSkipped ==
    {"ocr", "regex", "normalize", "mask", "llm", "similarity", "redactor", "document"}

\* C5: an unmonitored request is answered, and recorded, with no entities,
\* has_sensitive false, the prompt unchanged, allow true, file_blocked false,
\* action allow_unmonitored and an empty alert; a saved attachment comes back
\* with the uploaded bytes and file_change false; OCR, regex detection, the
\* language model, the similarity check and the redactor do not run.
C5_UnmonitoredPassThrough ==
    (Built /\ ~loc.monitored)
    => /\ out.entities = <<>> /\ BuiltRecord.entities = <<>>
       /\ ~out.has_sensitive /\ ~BuiltRecord.has_sensitive
       /\ out.modified_prompt = item.prompt
       /\ BuiltRecord.modified_prompt = item.prompt
       /\ out.allow /\ BuiltRecord.allow
       /\ ~out.file_blocked /\ ~BuiltRecord.file_blocked
       /\ out.action = "allow_unmonitored"
       /\ BuiltRecord.action = "allow_unmonitored"
       /\ out.alert = <<>>
       /\ (item.attachment.present /\ item.attachment.format # <<>>
             /\ item.attachment.has_data) =>
             /\ out.attachment.present
             /\ out.attachment.bytes = item.attachment.bytes
             /\ ~out.attachment.file_change
       /\ \A i \in 1..Len(calls) : calls[i] \notin UnmonitoredSkipped

C5_UnmonitoredAttachmentSeen ==
    /\ Built
    /\ ~loc.monitored
    /\ item.prompt = <<"0","1">>
    /\ item.attachment.format = F_txt
    /\ env.tool = "hit"
    /\ out.attachment.present
    /\ out.attachment.bytes = <<"b1">>

\* the request carries a PNG named by its extension, the OCR engine reads no
\* text from it, and the admin folder holds an image at least 0.4 similar
SimilarPngUploaded ==
    /\ item.attachment.present
    /\ item.attachment.format = F_png
    /\ item.attachment.has_data
    /\ item.attachment.b64ok
    /\ env.ocr.tesseract /\ ~env.ocr.raises /\ env.ocr.text = <<>>
    /\ env.sim.exists /\ ~env.sim.raises
    /\ env.sim.score >= SIMILARITY_THRESHOLD

\* C8: a monitored request with a PNG attachment (format "png") whose OCR
\* text is empty and whose best similarity against the admin folder is at
\* least 0.4 is answered file_blocked, not allowed, block_upload_similar,
\* whatever the prompt and the response method.
C8_SimilarPngIsBlocked ==
    (Built /\ loc.monitored /\ SimilarPngUploaded)
    => /\ out.file_blocked
       /\ ~out.allow
       /\ out.action = "block_upload_similar"

\* The similarity override never fires: OCR runs only for a format that is a
\* MIME type, and such a format cannot be saved as an image file.
C8_SimilarityNeverFires ==
    /\ ~loc.similar
    /\ out.action # "block_upload_similar"
    /\ \A i \in 1..Len(calls) : calls[i] # "similarity"

C8_SimilarPngAllowedSeen ==
    /\ Built
    /\ loc.monitored
    /\ SimilarPngUploaded
    /\ env.sim.score = 82
    /\ loc.saved_mime = M_image_png
    /\ ~loc.ocr_used
    /\ out.allow

\* C9: no two accepted entities of a response overlap, whatever their labels
\* and whichever stage produced them.
C9_NoAcceptedOverlap ==
    Built =>
       \A i, j \in 1..Len(out.entities) :
          i # j => \/ out.entities[i].end <= out.entities[j].begin
                   \/ out.entities[j].end <= out.entities[i].begin

\* C9 within the regex stages: the merged raw and normalized regex spans do
\* not overlap.
C9_RegexSpansDisjoint ==
    Built =>
       \A i, j \in 1..Len(loc.regex_ents_prompt) :
          i # j => \/ loc.regex_ents_prompt[i].end <= loc.regex_ents_prompt[j].begin
                   \/ loc.regex_ents_prompt[j].end <= loc.regex_ents_prompt[i].begin

C9_OverlapAcceptedSeen ==
    /\ Built
    /\ \E i, j \in 1..Len(out.entities) :
          /\ i < j
          /\ out.entities[i].label # out.entities[j].label
          /\ out.entities[i].begin < out.entities[j].end
          /\ out.entities[j].begin < out.entities[i].end

\* C10: every accepted entity lies inside the original prompt and its value
\* is the slice of the prompt it spans, for raw regex spans, spans found on
\* the normalized text and rebased language model entities alike.
C10_EntitiesAnchoredInPrompt ==
    Built =>
       \A i \in 1..Len(out.entities) :
          /\ 0 <= out.entities[i].begin
          /\ out.entities[i].begin < out.entities[i].end
          /\ out.entities[i].end <= Len(item.prompt)
          /\ Slice(item.prompt, out.entities[i].begin, out.entities[i].end)
                = out.entities[i].value

\* a span found only on the normalized text and a rebased entity of the
\* language model are both accepted
C10_NormalizedAndRebasedSeen ==
    /\ Built
    /\ \E i, j \in 1..Len(out.entities) :
          /\ \E k \in 1..Len(out.entities[i].value) :
                out.entities[i].value[k] \in {"o", "z"}
          /\ out.entities[i].label = L_PHONE
          /\ out.entities[j].label = L_NAME
          /\ out.entities[j] \in {loc.ai_ents_rebased[k] : k \in 1..Len(loc.ai_ents_rebased)}

\* a monitored request answered under response method "mask" with accepted
\* entities
MaskAnswered ==
    /\ Built
    /\ loc.monitored
    /\ loc.response_method = S_mask
    /\ out.entities # <<>>
    /\ ~loc.similar

\* the accepted entities of the response are pairwise disjoint
AcceptedDisjoint ==
    \A i, j \in 1..Len(out.entities) :
       i # j => \/ out.entities[i].end <= out.entities[j].begin
                \/ out.entities[j].end <= out.entities[i].begin

\* C11: under response method "mask" with accepted entities, the returned
\* prompt contains the value of no accepted entity and contains the token of
\* every accepted entity's label.
C11_MaskHidesValuesShowsLabels ==
    MaskAnswered =>
       \A i \in 1..Len(out.entities) :
          /\ ~Contains(out.entities[i].value, out.modified_prompt)
          /\ Contains(token_for(norm_label(out.entities[i])), out.modified_prompt)

\* C11, the values alone: no accepted value is left in the returned prompt.
C11_ValuesHidden ==
    MaskAnswered =>
       \A i \in 1..Len(out.entities) :
          ~Contains(out.entities[i].value, out.modified_prompt)

\* C11 for responses whose accepted entities do not overlap.
C11_DisjointEntitiesAreMasked ==
    (MaskAnswered /\ AcceptedDisjoint) =>
       \A i \in 1..Len(out.entities) :
          /\ ~Contains(out.entities[i].value, out.modified_prompt)
          /\ Contains(token_for(norm_label(out.entities[i])), out.modified_prompt)

\* an accepted entity whose label is absent from the masked prompt
C11_LabelMissingSeen ==
    /\ MaskAnswered
    /\ \E i \in 1..Len(out.entities) :
          ~Contains(token_for(norm_label(out.entities[i])), out.modified_prompt)

\* C12: every entity of a response and of its record has a label of the
\* whitelist and a non-empty value; an entity the language model reports
\* under another label reaches neither the response, the mask nor the alert.
C12_OnlyWhitelistedLabels ==
    Built =>
       /\ \A i \in 1..Len(out.entities) :
             /\ out.entities[i].label \in ALLOWED
             /\ out.entities[i].value # <<>>
       /\ BuiltRecord.entities = out.entities
       /\ \A i \in 1..Len(loc.ai_ents_rebased) : loc.ai_ents_rebased[i].label \in ALLOWED
       /\ ~Contains(L_BOGUS, out.modified_prompt)

\* C12, the values alone: no accepted entity has an empty value.
C12_ValuesNonEmpty ==
    Built =>
       /\ \A i \in 1..Len(out.entities) : out.entities[i].value # <<>>
       /\ BuiltRecord.entities = out.entities

\* a label outside the whitelist is in the response, the record and the mask
C12_UnlistedLabelAcceptedSeen ==
    /\ Built
    /\ \E i \in 1..Len(out.entities) : out.entities[i].label = L_BOGUS
    /\ \E i \in 1..Len(BuiltRecord.entities) : BuiltRecord.entities[i].label = L_BOGUS
    /\ Contains(L_BOGUS, out.modified_prompt)

(***************************************************************************)
(* Properties of the shared model                                          *)
(***************************************************************************)
Generating == {t \in Threads : thr[t].pc = "generating"}

\* C13: at most one call of the shared model's generate is in progress at
\* any time.
C13_OneGenerationAtATime == Cardinality(Generating) <= 1

\* two threads are inside generate on the same model handle
C13_TwoGenerationsSeen ==
    \E s, t \in Generating : s # t /\ thr[s].held = thr[t].held

\* C14: the shared model is loaded at most once per process, and every
\* caller that holds a handle holds the same one.
C14_LoadedOnce ==
    /\ server.loads <= 1
    /\ \A s, t \in Threads :
          (thr[s].held # 0 /\ thr[t].held # 0) => thr[s].held = thr[t].held

\* two callers found the cache empty, both loaded, and they hold two handles
C14_TwoLoadsSeen ==
    /\ server.loads = 2
    /\ server.environ_dir # <<>>
    /\ \E s, t \in Threads :
          /\ thr[s].kind = thr[t].kind
          /\ thr[s].held # 0 /\ thr[t].held # 0
          /\ thr[s].held # thr[t].held

\* C15: a generation does not outlast the configured timeout: a caller
\* still inside generate has been there for at most TIMEOUT_SEC seconds, so
\* that its request goes on to the fallback and its response.
C15_GenerationBoundedByTimeout ==
    \A t \in Threads :
       thr[t].pc = "generating" => thr[t].elapsed <= TIMEOUT_SEC

\* C15, the failures the runner does catch: a load or a generation that
\* raises inside analyze_text ends in the fallback, never in an exception.
C15_DetectorFailuresFallBack ==
    \A t \in Threads :
       (thr[t].pc = "returned" /\ thr[t].kind = "detect") => thr[t].result # "raised"

\* a detection call is still inside generate after more than the timeout
C15_GenerationPastTimeoutSeen ==
    \E t \in Threads :
       /\ thr[t].kind = "detect"
       /\ thr[t].pc = "generating"
       /\ thr[t].elapsed > TIMEOUT_SEC

\* the request carries attachment data that cannot be decoded, or a file that
\* cannot be written
UnreadableAttachment ==
    /\ route = "handle"
    /\ item.attachment.present
    /\ item.attachment.format # <<>>
    /\ item.attachment.has_data
    /\ save_attachment_file(item, NoFiles).kind = "raise"

\* C16: a request whose attachment cannot be decoded or written is handled
\* as one without attachment: the handler runs to its LogRecord and does not
\* raise, and the response it builds carries no attachment.
C16_UnreadableAttachmentIsSkipped ==
    (UnreadableAttachment /\ pc \in {"handled", "responding"}) =>
       /\ calls # <<>>
       /\ calls[Len(calls)] = "create"
       /\ pc = "handled" =>
             /\ Cardinality(session) = 1
             /\ ~out.attachment.present

\* the handler raised in save_attachment_file and the request is answered 500
C16_UnreadableAttachmentFailsSeen ==
    /\ UnreadableAttachment
    /\ ~item.attachment.b64ok
    /\ pc = "responding"
    /\ status = 500
    /\ calls = <<"settings", "save">>
    /\ session = {}

\* C17: without MODEL_DIR the service still starts, and requests are served
\* with the regex entities alone.
C17_StartsWithoutModelDir ==
    (server.environ_dir = <<>> /\ server.state # "starting") =>
       /\ server.state = "up"
       /\ Built => (loc.ai_ents_rebased = <<>> /\ ~loc.det_has)

\* C17 for a directory that is set but cannot be loaded: the language model
\* stage contributes nothing and the accepted entities are the regex ones.
C17_LoadFailureUsesRegexOnly ==
    (Built /\ loc.monitored /\ env.ai.kind = "load_fail") =>
       /\ loc.ai_ents_rebased = <<>>
       /\ ~loc.det_has
       /\ out.entities = loc.regex_ents_prompt

\* without MODEL_DIR the import of services/db_logging.py has failed
C17_ImportFailedSeen ==
    /\ server.environ_dir = <<>>
    /\ server.state = "failed"

\* the handler was run on a request during which stage f raises
FaultHandled(f) ==
    /\ route = "handle"
    /\ env.fault = f
    /\ ~UnreadableAttachment
    /\ pc \in {"handled", "responding"}

\* C18: when the regex detector or the normalizer raises, the stage yields
\* no spans, the handler runs on to its LogRecord and nothing is raised.
C18_StageFaultsAreSwallowed ==
    \A f \in {"regex", "normalize"} :
       FaultHandled(f) =>
          /\ calls # <<>>
          /\ calls[Len(calls)] = "create"
          /\ pc = "handled" =>
                /\ Cardinality(session) = 1
                /\ loc.regex_ents_prompt = <<>>
                /\ loc.regex_ents_ocr = <<>>

\* C18 for the regex detector alone: its exception is swallowed.
C18_RegexFaultIsSwallowed ==
    FaultHandled("regex") =>
       /\ calls # <<>>
       /\ calls[Len(calls)] = "create"
       /\ pc = "handled" =>
             /\ Cardinality(session) = 1
             /\ loc.regex_ents_prompt = <<>>
             /\ loc.regex_ents_ocr = <<>>
             /\ out.entities = loc.ai_ents_rebased

\* the normalizer raised on the prompt and the request is answered 500
C18_NormalizerFaultFailsSeen ==
    /\ FaultHandled("normalize")
    /\ item.prompt # <<>>
    /\ pc = "responding"
    /\ status = 500
    /\ session = {}
    /\ calls[Len(calls)] = "normalize"

\* the regex detector raised and the request was handled to its record
C18_RegexFaultHandledSeen ==
    /\ FaultHandled("regex")
    /\ loc.monitored
    /\ item.prompt = <<"0", "1">>
    /\ pc = "handled"

\* the place of a stage in the request flow: store, OCR, regex and
\* normalizer, masking for the language model, language model, policy (with
\* image similarity), document redaction, persistence
StageRank(s) ==
    CASE s = "settings" -> 0
      [] s = "save" -> 1
      [] s = "ocr" -> 2
      [] s \in {"regex", "normalize"} -> 3
      [] s = "mask" -> 4
      [] s = "llm" -> 5
      [] s \in {"policy", "similarity"} -> 6
      [] s \in {"document", "redactor"} -> 7
      [] s = "create" -> 8

InFlowOrder(trace) ==
    \A i, j \in 1..Len(trace) : i < j => StageRank(trace[i]) <= StageRank(trace[j])

\* C19: in a monitored request the stages run in the order of the request
\* flow; the document redactor runs only after the policy decision.
C19_StagesInFlowOrder ==
    (Built /\ loc.monitored) => InFlowOrder(calls)

\* C19 without the attachment processors: the other stages are in order.
C19_DetectionStagesInOrder ==
    (Built /\ loc.monitored) =>
       InFlowOrder(SelectSeq(calls, LAMBDA s : s \notin {"document", "redactor"}))

\* the redactor ran before OCR, detection and the policy decision
C19_RedactorBeforePolicySeen ==
    /\ Built
    /\ loc.monitored
    /\ \E i, j \in 1..Len(calls) :
          i < j /\ calls[i] = "redactor" /\ calls[j] = "policy"

\* the document processor ran on the saved attachment
DocumentProcessed == \E i \in 1..Len(calls) : calls[i] = "document"

\* the file_change flag of the response says whether the bytes changed
FileChangeIsExact ==
    out.attachment.file_change <=> (out.attachment.bytes # item.attachment.bytes)

\* C20: a response attachment has file_change true exactly when its bytes
\* differ from the uploaded ones; a text or office attachment in which no
\* pattern matched comes back with file_change false, and no detection file
\* is written for it.
C20_FileChangeIffBytesDiffer ==
    (Built /\ out.attachment.present) =>
       /\ FileChangeIsExact
       /\ (DocumentProcessed /\ env.tool = "none") =>
             /\ ~out.attachment.file_change
             /\ ~FileExists(fs, SiblingPath(loc.saved_path, T_detection))

\* C20 for attachments the document processor did not touch: images, PDFs,
\* other formats and every attachment of an unmonitored request.
C20_OtherAttachmentsFlagIsExact ==
    (Built /\ out.attachment.present /\ ~DocumentProcessed) => FileChangeIsExact

\* a text attachment without a match comes back byte-identical, flagged as
\* changed, with a detection file on disk
C20_UnchangedTextFlaggedSeen ==
    /\ Built
    /\ DocumentProcessed
    /\ env.tool = "none"
    /\ out.attachment.present
    /\ out.attachment.file_change
    /\ out.attachment.bytes = item.attachment.bytes
    /\ FileExists(fs, SiblingPath(loc.saved_path, T_detection))

(***************************************************************************)
(* SpecReplay: requests that follow one another on the same store          *)
(***************************************************************************)
MaxRequests == 2

UploadOf(it, f, b) ==
    [it EXCEPT !.attachment = [NoAttachment EXCEPT !.present = TRUE, !.format = f,
                                  !.has_data = TRUE, !.bytes = b]]

\* requests whose fields name the same or another upload path, and documents
\* that the document handler does or does not manage to read
ReplayRequests ==
    {<<UploadOf(it, F_png, <<"b1">>), BaseEnv>>
        : it \in {BaseItem,
                  [BaseItem EXCEPT !.pc_name = <<"p","c","_","1">>],
                  [BaseItem EXCEPT !.time = <<"1","0","-","3","0">>],
                  [BaseItem EXCEPT !.public_ip = <<"1","0",".","0",".","0",".","2">>],
                  [BaseItem EXCEPT !.public_ip = <<>>],
                  [BaseItem EXCEPT !.public_ip = <<"n","o","i","p">>],
                  [BaseItem EXCEPT !.hostname = <<"h">>],
                  [BaseItem EXCEPT !.hostname = <<"h">>, !.pc_name = <<"p","c"," ","2">>]}}
    \cup {<<UploadOf(BaseItem, F_docx, b), [BaseEnv EXCEPT !.tool = t]>>
            : b \in {<<"b1">>, <<"b2">>}, t \in {"hit", "raise"}}

NextReplay ==
    \/ Startup
    \/ nextId <= MaxRequests /\ server.state = "up" /\ Receive("handle", ReplayRequests)
    \/ Handle
    \/ Commit
    \/ Respond

SpecReplay == Init /\ [][NextReplay]_vars

(***************************************************************************)
(* SpecRebase: _rebase_ai_entities_on_original on its own                  *)
(***************************************************************************)
MaxEnts == 3

RebaseEntities ==
    SeqsUpTo([type : {L_NAME, <<>>}, value : {<<"0">>, <<"1">>, <<"1","1">>}], MaxEnts)

RebaseRequests ==
    {<<[BaseItem EXCEPT !.prompt = p], [BaseEnv EXCEPT !.ai = [NoAi EXCEPT !.entities = es]]>>
        : p \in SeqsUpTo({"0", "1"}, MaxLen), es \in RebaseEntities}

EvalRebase ==
    /\ pc = "received"
    /\ route = "rebase"
    /\ loc' = [NoLocals EXCEPT !.ai_ents_rebased =
                  rebase_ai_entities_on_original(item.prompt, env.ai.entities)]
    /\ calls' = <<"rebase">>
    /\ pc' = "rebased"
    /\ UNCHANGED <<route, item, env, out, status, session, db, sent, fs, uploads, nextId, server, thr>>

NextRebase ==
    \/ Receive("rebase", RebaseRequests)
    \/ EvalRebase

SpecRebase == Init /\ [][NextRebase]_vars

(***************************************************************************)
(* SpecMask: the prompt masker on its own                                  *)
(***************************************************************************)
\* the spans of a text, each with the value it covers
SpansOf(text) ==
    {[label |-> L_CARD_NO, value |-> Slice(text, x[1], x[2]), begin |-> x[1], end |-> x[2]]
        : x \in {y \in (0..Len(text)) \X (0..Len(text)) : y[1] < y[2]}}

MaskRequests ==
    {<<[BaseItem EXCEPT !.prompt = p], [BaseEnv EXCEPT !.ai = [NoAi EXCEPT !.entities = es]]>>
        : <<p, es>> \in UNION {{<<t, s>> : s \in SeqsUpTo(SpansOf(t), MaxAi)}
                                 : t \in SeqsUpTo({"0", "1"}, MaxLen)}}

EvalMask ==
    /\ pc = "received"
    /\ route = "mask"
    /\ out' = [NoOut EXCEPT !.modified_prompt = mask_by_entities(item.prompt, env.ai.entities)]
    /\ calls' = <<"mask">>
    /\ pc' = "masked"
    /\ UNCHANGED <<route, item, env, loc, status, session, db, sent, fs, uploads, nextId, server, thr>>

EvalMaskParens ==
    /\ pc = "received"
    /\ route = "mask_parens"
    /\ out' = [NoOut EXCEPT !.modified_prompt =
                  mask_with_parens_by_entities(item.prompt, env.ai.entities)]
    /\ calls' = <<"mask">>
    /\ pc' = "masked"
    /\ UNCHANGED <<route, item, env, loc, status, session, db, sent, fs, uploads, nextId, server, thr>>

NextMask ==
    \/ Receive("mask", MaskRequests)
    \/ Receive("mask_parens", MaskRequests)
    \/ EvalMask
    \/ EvalMaskParens

SpecMask == Init /\ [][NextMask]_vars

(***************************************************************************)
(* SpecSettings: PUT /api/settings on worker threads, one session each     *)
(***************************************************************************)
\* _default_config(): response_method of a new SettingsConfig
DefaultConfig == S_mask

\* the bodies of SettingsUpdateIn
SettingsBodies == [config : {S_mask, S_block}, version : 1..MaxCalls]

\* the settings table: empty, or the row with id 1
SettingsRow(table) == CHOOSE r \in table : r.id = 1

\* _get_or_create_settings: the table after the call
get_or_create_settings(table) ==
    IF \E r \in table : r.id = 1 THEN table
    ELSE {[id |-> 1, config |-> DefaultConfig, version |-> 1]}

\* a PUT arrives and gets a worker thread and a session of its own
PutSettings(t) ==
    /\ thr[t].pc = "idle"
    /\ server.ncalls < MaxCalls
    /\ \E body \in SettingsBodies :
          thr' = [thr EXCEPT ![t] = [pc |-> "load", body |-> body, rec_version |-> 0,
                                     request_id |-> nextId]]
    /\ nextId' = nextId + 1
    /\ server' = [server EXCEPT !.ncalls = @ + 1]
    /\ UNCHANGED <<pc, route, item, env, loc, out, status, calls, session, db, sent, fs, uploads>>

\* update_settings, lines 137-144: the row is read into the session and the
\* version of the body is tested against it
LoadSettings(t) ==
    /\ thr[t].pc = "load"
    /\ db' = get_or_create_settings(db)
    /\ IF thr[t].body.version # SettingsRow(db').version
       THEN /\ sent' = sent \cup {[status |-> 409, request_id |-> thr[t].request_id,
                                    based_on |-> thr[t].body.version, version |-> 0]}
            /\ thr' = [thr EXCEPT ![t] = IdleThread]
       ELSE /\ sent' = sent
            /\ thr' = [thr EXCEPT ![t] = [@ EXCEPT !.pc = "write",
                                              !.rec_version = SettingsRow(db').version]]
    /\ UNCHANGED <<pc, route, item, env, loc, out, status, calls, session, fs, uploads, nextId, server>>

\* update_settings, lines 146-159: the session's row gets the new config and
\* its version plus one, and is committed
CommitSettings(t) ==
    /\ thr[t].pc = "write"
    /\ db' = {[id |-> 1, config |-> thr[t].body.config,
               version |-> thr[t].rec_version + 1]}
    /\ sent' = sent \cup {[status |-> 200, request_id |-> thr[t].request_id,
                            based_on |-> thr[t].body.version,
                            version |-> thr[t].rec_version + 1]}
    /\ thr' = [thr EXCEPT ![t] = IdleThread]
    /\ UNCHANGED <<pc, route, item, env, loc, out, status, calls, session, fs, uploads, nextId, server>>

NextSettings ==
    \/ \E t \in Threads : PutSettings(t)
    \/ \E t \in Threads : LoadSettings(t)
    \/ \E t \in Threads : CommitSettings(t)

SpecSettings == Init /\ [][NextSettings]_vars

(***************************************************************************)
(* SpecBoxes: the boxes drawn over an image (services/files/redaction.py)  *)
(***************************************************************************)
\* a box is <<x1, y1, x2, y2>>
X_GAP == 12

Y_TOL == 10

PAD_PX == 2

MaxBoxes == 2

Abs(n) == IF n < 0 THEN 0 - n ELSE n

Min(a, b) == IF a <= b THEN a ELSE b

Max(a, b) == IF a >= b THEN a ELSE b

\* the sort key (y1, x1)
BoxKeyLeq(a, b) == a[2] < b[2] \/ (a[2] = b[2] /\ a[1] <= b[1])

\* sorted(boxes, key=...): stable insertion
RECURSIVE InsertBox(_, _)
InsertBox(sorted, b) ==
    IF sorted = <<>> THEN <<b>>
    ELSE IF BoxKeyLeq(Head(sorted), b) THEN <<Head(sorted)>> \o InsertBox(Tail(sorted), b)
    ELSE <<b>> \o sorted

RECURSIVE SortBoxes(_)
SortBoxes(boxes) ==
    IF boxes = <<>> THEN <<>>
    ELSE InsertBox(SortBoxes(SubSeq(boxes, 1, Len(boxes) - 1)), boxes[Len(boxes)])

RECURSIVE MergeBoxesInto(_, _, _, _)
MergeBoxesInto(merged, rest, x_gap, y_tol) ==
    IF rest = <<>> THEN merged
    ELSE LET b == Head(rest)
             m == merged[Len(merged)]
             same_line == Abs(b[2] - m[2]) <= y_tol /\ Abs(b[4] - m[4]) <= y_tol
             near == (b[1] - m[3]) <= x_gap
         IN  IF same_line /\ near
             THEN MergeBoxesInto(
                      [merged EXCEPT ![Len(merged)] =
                          <<m[1], Min(m[2], b[2]), Max(m[3], b[3]), Max(m[4], b[4])>>],
                      Tail(rest), x_gap, y_tol)
             ELSE MergeBoxesInto(Append(merged, b), Tail(rest), x_gap, y_tol)

merge_horiz_boxes_px(boxes, x_gap, y_tol) ==
    IF boxes = <<>> THEN <<>>
    ELSE LET s == SortBoxes(boxes)
         IN  MergeBoxesInto(<<Head(s)>>, Tail(s), x_gap, y_tol)

pad_boxes_px(boxes, pad_px) ==
    [i \in 1..Len(boxes) |->
        <<Max(0, boxes[i][1] - pad_px), Max(0, boxes[i][2] - pad_px),
          boxes[i][3] + pad_px, boxes[i][4] + pad_px>>]

\* the word boxes the OCR hands over: on one line with some jitter, or on a
\* line further down
WordBoxes ==
    {<<x[1], y, x[2], y + 10>> : x \in {<<0, 10>>, <<10, 20>>, <<20, 40>>, <<0, 40>>},
                                 y \in {0, 1, 30}}

BoxRequests ==
    {<<BaseItem, [boxes |-> bs, x_gap |-> X_GAP, y_tol |-> Y_TOL]>>
        : bs \in SeqsUpTo(WordBoxes, MaxBoxes)}

\* _redact_image_file, lines 386-393: the rectangles drawn for the boxes
EvalBoxes ==
    /\ pc = "received"
    /\ route = "boxes"
    /\ loc' = [boxes |-> env.boxes,
               drawn |-> pad_boxes_px(
                            merge_horiz_boxes_px(env.boxes, env.x_gap, env.y_tol), PAD_PX)]
    /\ calls' = <<"redactor">>
    /\ pc' = "drawn"
    /\ UNCHANGED <<route, item, env, out, status, session, db, sent, fs, uploads, nextId, server, thr>>

NextBoxes ==
    \/ Receive("boxes", BoxRequests)
    \/ EvalBoxes

SpecBoxes == Init /\ [][NextBoxes]_vars

(***************************************************************************)
(* Properties of the attachment store                                      *)
(***************************************************************************)
\* the handler saved the uploaded file
Saved == Built /\ loc.saved_path # NoPath

AllSafe(s) == \A i \in 1..Len(s) : s[i] \in SafeChars

SavedName == loc.saved_path[3]

\* C21: the uploaded file is written at downloads/A/B/C.ext with A, B and C
\* made of safe characters and ext lower-case without a leading dot, three
\* components below the downloads root and never outside of it.
C21_UploadStaysBelowDownloads ==
    Saved =>
       /\ Len(loc.saved_path) = 3
       /\ AllSafe(loc.saved_path[1])
       /\ AllSafe(loc.saved_path[2])
       /\ AllSafe(PathStem(SavedName))
       /\ Lower(PathSuffix(SavedName)) = PathSuffix(SavedName)
       /\ Resolve(loc.saved_path) = <<D_downloads>> \o loc.saved_path

\* C21, the characters alone: the two directory names and the file name are
\* made of safe characters.
C21_ComponentsAreSanitized ==
    Saved =>
       /\ Len(loc.saved_path) = 3
       /\ AllSafe(loc.saved_path[1])
       /\ AllSafe(loc.saved_path[2])
       /\ AllSafe(SavedName)

\* an upload was written outside the downloads directory
C21_WrittenOutsideDownloadsSeen ==
    /\ Saved
    /\ item.public_ip = <<".", ".">>
    /\ Resolve(loc.saved_path)[1] # D_downloads
    /\ FileExists(fs, loc.saved_path)

\* C22: two requests write to the same file path only if they have the same
\* time, public_ip and pc_name.
C22_SamePathOnlyForSameFields ==
    \A u, v \in uploads :
        u.path = v.path =>
            u.time = v.time /\ u.public_ip = v.public_ip /\ u.pc_name = v.pc_name

\* C22, what the code gives: two requests write to the same path exactly when
\* their sanitised time, address and host names and the extension agree.
C22_SamePathIffSameSanitizedNames ==
    \A u, v \in uploads :
        u.path = v.path <=>
            /\ PathSuffix(u.path[3]) = PathSuffix(v.path[3])
            /\ sanitize(u.time) = sanitize(v.time)
            /\ sanitize(OrElse(u.public_ip, S_noip)) = sanitize(OrElse(v.public_ip, S_noip))
            /\ sanitize(OrElse(u.hostname, OrElse(u.pc_name, S_noname)))
                 = sanitize(OrElse(v.hostname, OrElse(v.pc_name, S_noname)))

\* a request overwrote the file of an earlier request with another pc_name
C22_OverwrittenByOtherPcSeen ==
    \E u, v \in uploads :
        /\ u.request_id < v.request_id
        /\ u.path = v.path
        /\ u.pc_name # v.pc_name
        /\ u.hostname = <<>> /\ v.hostname = <<>>
        /\ pc = "idle"

(***************************************************************************)
(* Properties of the action vocabulary                                     *)
(***************************************************************************)
SpecActions ==
    {"allow", "mask_and_allow", "allow_sensitive", "block_sensitive",
     "block_file_sensitive", "block_upload_similar", "allow_unmonitored"}

\* a handler has produced its response
Answered == pc = "responding" /\ out # NoOut

\* C23: the action of every ingestion response and of every LogRecord is one
\* of the seven listed values, whichever handler produced it.
C23_ActionInVocabulary ==
    /\ Answered => out.action \in SpecActions
    /\ \A r \in session \cup db : r.action \in SpecActions

\* C23 for DbLoggingService.handle alone: its responses and records carry one
\* of the seven values.
C23_HandleActionInVocabulary ==
    /\ (Answered /\ route = "handle") => out.action \in SpecActions
    /\ \A r \in session \cup db : r.action \in SpecActions

\* the legacy handler answered with an action outside the seven values
C23_LegacyBlockUploadSeen ==
    /\ Answered
    /\ route = "legacy"
    /\ status = 200
    /\ out.action = "block_upload"
    /\ out.file_blocked

(***************************************************************************)
(* The worked example: a name that only the language model finds           *)
(***************************************************************************)
ExampleAnswered ==
    /\ Built
    /\ item.prompt = P_name_is_hong
    /\ env.ai.entities = <<[type |-> L_NAME, value |-> V_hong]>>

AiClauseNames(alert, label) ==
    \E i \in 1..Len(alert) : alert[i].src = "ai" /\ label \in alert[i].labels

\* C24 (amended): for the prompt "je ireumeun honggildong-imnida" with an empty
\* regex result, the language model answer [NAME honggildong] and the default
\* policy, the response holds exactly the entity NAME honggildong at 6..9, the
\* alert names NAME as identified by AI, and the action is mask_and_allow.
C24_ExampleEntityAtSix ==
    ExampleAnswered =>
       /\ loc.regex_ents_prompt = <<>>
       /\ out.entities = <<[label |-> L_NAME, value |-> V_hong, begin |-> 6, end |-> 9]>>
       /\ AiClauseNames(out.alert, L_NAME)
       /\ out.action = "mask_and_allow"

\* C24 as stated: the same, with the entity at 7..10.
C24_ExampleEntityAtSeven ==
    ExampleAnswered =>
       /\ out.entities = <<[label |-> L_NAME, value |-> V_hong, begin |-> 7, end |-> 10]>>
       /\ AiClauseNames(out.alert, L_NAME)
       /\ out.action = "mask_and_allow"

\* the example was answered
C24_ExampleAnsweredSeen ==
    /\ ExampleAnswered
    /\ out.allow
    /\ Slice(item.prompt, out.entities[1].begin, out.entities[1].end) = V_hong

(***************************************************************************)
(* Properties of the span merger and of rebasing                           *)
(***************************************************************************)
\* the handler merged the regex spans with the rebased spans
MergedSeen == Built /\ loc.monitored

\* the rebased spans that no regex span excludes
FreeOfRegex(base, extra) ==
    SelectSeq(extra, LAMBDA e : \A i \in 1..Len(base) : ~SpanConflict(e, base[i]))

\* C25: the merger returns every regex span unchanged in the original order,
\* followed by exactly the rebased spans that are neither span-identical to a
\* regex span nor of the same label as and overlapping a regex span.
C25_MergeIsRegexThenFreeLlm ==
    MergedSeen =>
        out.entities = loc.regex_ents_prompt
                         \o FreeOfRegex(loc.regex_ents_prompt, loc.ai_ents_rebased)

\* C25, what the code gives: the regex spans come first and unchanged, no
\* rebased span excluded by a regex span follows, and a rebased span that no
\* regex span excludes is left out only for a rebased span kept before it.
C25_MergeIsRegexThenUnconflictedLlm ==
    MergedSeen =>
        LET base == loc.regex_ents_prompt
            free == FreeOfRegex(base, loc.ai_ents_rebased)
            kept == SubSeq(out.entities, Len(base) + 1, Len(out.entities))
        IN  /\ Len(out.entities) >= Len(base)
            /\ SubSeq(out.entities, 1, Len(base)) = base
            /\ \A i \in 1..Len(kept) : \E j \in 1..Len(free) : free[j] = kept[i]
            /\ \A j \in 1..Len(free) :
                  \/ \E i \in 1..Len(kept) : kept[i] = free[j]
                  \/ \E i \in 1..Len(kept) : SpanConflict(free[j], kept[i])

\* a rebased span that no regex span excludes was left out
C25_FreeLlmSpanRejectedSeen ==
    /\ MergedSeen
    /\ loc.regex_ents_prompt = <<>>
    /\ Len(loc.ai_ents_rebased) = 2
    /\ Len(out.entities) = 1

\* a rebased span with the label and range of a regex span left only the
\* regex span
C25_SameSpanKeepsRegexSeen ==
    /\ MergedSeen
    /\ Len(loc.regex_ents_prompt) = 1
    /\ loc.ai_ents_rebased # <<>>
    /\ \A i \in 1..Len(loc.ai_ents_rebased) :
          ent_key(loc.ai_ents_rebased[i]) = ent_key(loc.regex_ents_prompt[1])
    /\ out.entities = loc.regex_ents_prompt

Rebased == pc = "rebased"

\* the entities that carry a label and a value
Usable(ents) == SelectSeq(ents, LAMBDA e : Strip(e.type) # <<>> /\ Strip(e.value) # <<>>)

\* those whose value occurs in the prompt
Anchorable(text, ents) == SelectSeq(Usable(ents), LAMBDA e : Contains(Strip(e.value), text))

\* the number of non-overlapping occurrences of v in s from pos on
RECURSIVE CountFrom(_, _, _)
CountFrom(s, v, pos) ==
    LET i == Find(s, v, pos)
    IN  IF i < 0 THEN 0 ELSE 1 + CountFrom(s, v, i + Len(v))

\* the spans follow the rolling cursor: each entity with a label and a value
\* is anchored at the leftmost occurrence at or after the end of the span
\* before it (0 for the first), else at the leftmost occurrence in the prompt,
\* else dropped
FollowsCursor(text, ents, r) ==
    LET a == Anchorable(text, ents)
    IN  /\ Len(r) = Len(a)
        /\ \A i \in 1..Len(r) :
              LET v == Strip(a[i].value)
                  cursor == IF i = 1 THEN 0 ELSE r[i - 1].end
                  here == Find(text, v, cursor)
              IN  /\ r[i].label = Upper(Strip(a[i].type))
                  /\ r[i].value = v
                  /\ r[i].begin = (IF here >= 0 THEN here ELSE Find(text, v, 0))
                  /\ r[i].end = r[i].begin + Len(v)

LeftToRight(r, idx) ==
    \A i, j \in idx : i < j => r[i].end <= r[j].begin

\* C26 (amended): rebasing follows the rolling cursor, and k entities with
\* the same value that make up the whole list, rebased on a prompt with at
\* least k non-overlapping occurrences of it, receive k pairwise distinct
\* spans in left-to-right order.
C26_CursorAndDistinctSpansForOneValue ==
    Rebased =>
        LET text == item.prompt
            u == Usable(env.ai.entities)
            r == loc.ai_ents_rebased
        IN  /\ FollowsCursor(text, env.ai.entities, r)
            /\ (/\ u # <<>>
                /\ \A i \in 1..Len(u) : Strip(u[i].value) = Strip(u[1].value)
                /\ CountFrom(text, Strip(u[1].value), 0) >= Len(u))
               => (Len(r) = Len(u) /\ LeftToRight(r, 1..Len(r)))

\* C26 as stated: rebasing follows the rolling cursor, and any k entities of
\* the list with the same value, rebased on a prompt with at least k
\* non-overlapping occurrences of it, receive k pairwise distinct spans in
\* left-to-right order.
C26_CursorAndDistinctSpansForAnyValue ==
    Rebased =>
        LET text == item.prompt
            u == Usable(env.ai.entities)
            r == loc.ai_ents_rebased
        IN  /\ FollowsCursor(text, env.ai.entities, r)
            /\ \A n \in 1..Len(u) :
                  LET v == Strip(u[n].value)
                      k == Cardinality({m \in 1..Len(u) : Strip(u[m].value) = v})
                  IN  CountFrom(text, v, 0) >= k
                        => /\ Cardinality({i \in 1..Len(r) : r[i].value = v}) = k
                           /\ LeftToRight(r, {i \in 1..Len(r) : r[i].value = v})

\* three entities of one value were anchored at three occurrences, one after
\* the other
C26_ThreeOccurrencesAnchoredSeen ==
    /\ Rebased
    /\ Len(env.ai.entities) = 3
    /\ Len(loc.ai_ents_rebased) = 3
    /\ \A i \in 1..3 : loc.ai_ents_rebased[i].value = <<"1">>
    /\ \A i \in 1..3 : loc.ai_ents_rebased[i].begin = i - 1

\* an entity between two entities of one value moved the cursor past the
\* second occurrence, and both were anchored at the first
C26_SameSpanTwiceSeen ==
    /\ Rebased
    /\ Len(loc.ai_ents_rebased) = 3
    /\ loc.ai_ents_rebased[1] = loc.ai_ents_rebased[3]
    /\ CountFrom(item.prompt, loc.ai_ents_rebased[1].value, 0) >= 2

(***************************************************************************)
(* Properties of the prompt masker                                         *)
(***************************************************************************)
Masked == pc = "masked"

PairwiseDisjoint(ents) ==
    \A i, j \in 1..Len(ents) :
        i # j => ~Overlap(ents[i].begin, ents[i].end, ents[j].begin, ents[j].end)

\* the text from pos on, each listed range replaced by its token and every
\* other character kept
RECURSIVE ReplacedFrom(_, _, _, _)
ReplacedFrom(text, ents, pos, parens) ==
    IF pos >= Len(text) THEN <<>>
    ELSE IF \E i \in 1..Len(ents) : ents[i].begin = pos
    THEN LET e == ents[CHOOSE i \in 1..Len(ents) : ents[i].begin = pos]
             tok == token_for(Upper(Strip(e.label)))
         IN  (IF parens THEN <<"(">> \o tok \o <<")">> ELSE tok)
               \o ReplacedFrom(text, ents, e.end, parens)
    ELSE <<text[pos + 1]>> \o ReplacedFrom(text, ents, pos + 1, parens)

\* C27: for pairwise non-overlapping entities with valid offsets the masked
\* text is the text with each entity range replaced by its label token, in
\* parentheses for the parens variant, and every character outside the
\* ranges kept.
C27_MaskReplacesListedRangesOnly ==
    (Masked /\ PairwiseDisjoint(env.ai.entities)) =>
        out.modified_prompt
          = ReplacedFrom(item.prompt, env.ai.entities, 0, route = "mask_parens")

\* every match of an entity's value in the text is one of the listed ranges
ValuesOnlyInRanges(text, ents) ==
    \A i \in 1..Len(ents) :
        LET ms == FindIter(text, ents[i].value, 0)
        IN  \A k \in 1..Len(ms) :
               \E j \in 1..Len(ents) :
                   ents[j].begin = ms[k].begin /\ ents[j].end = ms[k].end

\* C27, what the code gives: the same, when the values of the entities match
\* nowhere in the text but at the listed ranges.
C27_MaskReplacesRangesOfUniqueValues ==
    (Masked /\ PairwiseDisjoint(env.ai.entities)
            /\ ValuesOnlyInRanges(item.prompt, env.ai.entities)) =>
        out.modified_prompt
          = ReplacedFrom(item.prompt, env.ai.entities, 0, route = "mask_parens")

\* a character outside the one listed range was replaced
C27_UnlistedOccurrenceMaskedSeen ==
    /\ Masked
    /\ route = "mask"
    /\ item.prompt = <<"1", "1">>
    /\ env.ai.entities = <<[label |-> L_CARD_NO, value |-> <<"1">>, begin |-> 0, end |-> 1]>>
    /\ out.modified_prompt = token_for(L_CARD_NO) \o token_for(L_CARD_NO)

\* two listed ranges with values that occur nowhere else were replaced
C27_TwoRangesMaskedSeen ==
    /\ Masked
    /\ route = "mask_parens"
    /\ item.prompt = <<"0", "1", "1">>
    /\ Len(env.ai.entities) = 2
    /\ PairwiseDisjoint(env.ai.entities)
    /\ ValuesOnlyInRanges(item.prompt, env.ai.entities)
    /\ out.modified_prompt
         = <<"(">> \o token_for(L_CARD_NO) \o <<")", "(">> \o token_for(L_CARD_NO) \o <<")">>

(***************************************************************************)
(* Properties of the settings API                                          *)
(***************************************************************************)
AppliedUpdates == {r \in sent : r.status = 200}

\* C28: of the settings updates that carry the same version number at most
\* one is applied, and the stored version is one more for each applied
\* update.
C28_OneAppliedUpdatePerVersion ==
    /\ \A a, b \in AppliedUpdates :
          a.request_id # b.request_id => a.based_on # b.based_on
    /\ db # {} => SettingsRow(db).version = 1 + Cardinality(AppliedUpdates)

\* C28, what the code gives: an update is rejected with the conflict status
\* and leaves no trace, or is applied and answers with its version plus one,
\* and the stored version is one that an applied update answered with.
C28_AppliedAnswersNextVersion ==
    /\ \A r \in sent : \/ r.status = 409
                       \/ r.status = 200 /\ r.version = r.based_on + 1
    /\ db # {} => \/ SettingsRow(db).version = 1 /\ SettingsRow(db).config = DefaultConfig
                  \/ \E r \in AppliedUpdates : r.version = SettingsRow(db).version

\* two updates based on version 1 were both applied, and the stored version
\* is 2
C28_TwoAppliedOnOneVersionSeen ==
    /\ \E a, b \in AppliedUpdates :
          a.request_id # b.request_id /\ a.based_on = 1 /\ b.based_on = 1
    /\ db # {}
    /\ SettingsRow(db).version = 2

(***************************************************************************)
(* Properties of the returned attachment                                   *)
(***************************************************************************)
\* b is src, or what a tool made of src
DerivedFrom(b, src) == b = src \/ (b # <<>> /\ Tail(b) = src)

\* the handler built a response that carries an attachment
AttachmentReturned == Built /\ out.attachment.present

\* C29: the attachment bytes of a response derive from the bytes uploaded in
\* the same request, whatever files earlier requests left on disk.
C29_ReturnedBytesAreOwn ==
    AttachmentReturned => DerivedFrom(out.attachment.bytes, item.attachment.bytes)

\* C29 for a path no earlier request wrote to: the returned bytes derive from
\* the bytes of the request.
C29_FreshPathReturnsOwnBytes ==
    (AttachmentReturned
       /\ \A u \in uploads : u.path = loc.saved_path => u.request_id = out.request_id)
    => DerivedFrom(out.attachment.bytes, item.attachment.bytes)

\* a request whose document could not be processed got the detection file of
\* an earlier request
C29_StaleDetectionReturnedSeen ==
    /\ AttachmentReturned
    /\ env.tool = "raise"
    /\ item.attachment.bytes = <<"b2">>
    /\ out.attachment.bytes = Derived("masked", <<"b1">>)
    /\ out.attachment.file_change
    /\ \E u \in uploads : u.request_id < out.request_id /\ u.path = loc.saved_path

(***************************************************************************)
(* Properties of the drawn boxes                                           *)
(***************************************************************************)
Drawn == pc = "drawn"

Inside(b, m) == m[1] <= b[1] /\ m[2] <= b[2] /\ b[3] <= m[3] /\ b[4] <= m[4]

Covered(b, boxes) == \E i \in 1..Len(boxes) : Inside(b, boxes[i])

\* C30: each input box is contained in a box of the horizontal merge, so
\* that every word box lies inside a drawn rectangle, whatever the order and
\* the vertical jitter of the input.
C30_EveryWordBoxIsCovered ==
    Drawn =>
        \A i \in 1..Len(loc.boxes) :
            /\ Covered(loc.boxes[i], merge_horiz_boxes_px(loc.boxes, X_GAP, Y_TOL))
            /\ Covered(loc.boxes[i], loc.drawn)

\* C30 without jitter: word boxes with the same top edge all lie inside a
\* drawn rectangle.
C30_LevelWordBoxesAreCovered ==
    (Drawn /\ \A i, j \in 1..Len(loc.boxes) : loc.boxes[i][2] = loc.boxes[j][2]) =>
        \A i \in 1..Len(loc.boxes) :
            /\ Covered(loc.boxes[i], merge_horiz_boxes_px(loc.boxes, X_GAP, Y_TOL))
            /\ Covered(loc.boxes[i], loc.drawn)

\* a word box to the left of, and slightly below, another one was merged
\* into it and sticks out of the drawn rectangle
C30_WordBoxLeftUncoveredSeen ==
    /\ Drawn
    /\ loc.boxes = <<<<0, 1, 10, 11>>, <<10, 0, 20, 10>>>>
    /\ loc.drawn = <<<<8, 0, 22, 13>>>>
    /\ ~Covered(loc.boxes[1], loc.drawn)

\* two level word boxes were merged into one drawn rectangle
C30_LevelBoxesMergedSeen ==
    /\ Drawn
    /\ loc.boxes = <<<<20, 0, 40, 10>>, <<0, 0, 10, 10>>>>
    /\ loc.drawn = <<<<0, 0, 42, 12>>>>

=============================================================================
